---- MODULE Spec2Model ----
(***************************************************************************)
(* A model of the GUI core of the repository: the widget tree (parent      *)
(* back-references and ordered child lists of Container), the per-widget   *)
(* event system driven by the mouse module, and the frame loop that calls  *)
(* them; the layouts that place their children; the registry of widget    *)
(* ids; the network module with its threads; the window manager; and the  *)
(* Timer.  Python objects are named by strings; Python's None is None.     *)
(***************************************************************************)
EXTENDS Integers, Sequences, FiniteSets, TLC

None == "None"

\* The objects of the model: two containers, one Button and one plain Widget,
\* and a second plain Widget that only the layouts are given.
Containers == {"A", "B"}
Leaves == {"w1", "w2"}
LayoutLeaves == Leaves \cup {"w3"}
Objs == Containers \cup LayoutLeaves

\* A value that is not a Widget (Container._add rejects it).
NotAWidget == "junk"

\* type(o): the class of each object.  Which subclass of Container a
\* container is, is in params.
Class(o) ==
    IF o \in Containers THEN "Container"
    ELSE IF o = "w1" THEN "Button"
    ELSE "Widget"

\* issubclass(type(x), Widget)
IsWidget(x) == x \in Objs

\* issubclass(type(x), Container)
IsContainer(x) == x \in Containers

\* The connections the host accepts, one per peer.
Peers == {"c1", "c2"}

\* The connections of a host that relays between three peers.
Conns == Peers \cup {"c3"}

\* The mouse buttons the event system looks at: range(1, 4).
NumButtons == 3
ButtonNums == 1..NumButtons

\* Longest child list the model lets a container grow to.
MaxChildren == 3

\* The mouse buttons the environment presses and releases (1..MaxRawButton).
MaxRawButton == 1

VARIABLES
    parent,              \* Widget.__parent
    children,            \* Container.__children
    recomputed,          \* containers whose set_children_position ran in the last call
    last,                \* the last call: operation, arguments, exception raised
    rect,                \* Widget._rect, relative to the parent: [x, y, w, h]
    image,               \* Widget._image: None or present
    active,              \* Widget.__active
    disabled,            \* WidgetEventSystem.__disabled
    widget_hovered,      \* WidgetEventSystem._widget_hovered
    widget_pressed,      \* WidgetEventSystem._widget_pressed
    triggers,            \* WidgetEventSystem.__triggers
    coords,              \* __mouse.coords
    motion,              \* __mouse.motion
    wheel,               \* __mouse.wheel
    buttons,             \* __mouse.buttons[i].state
    hovered_widgets,     \* __mouse.hovered_widgets
    interacted_widgets,  \* __mouse.interacted_widgets
    pc,                  \* where the frame loop stands
    emitted,             \* events dispatched to listener chains in this frame, in order
    calls,               \* listener invocations of this frame, in order
    rendered,            \* the images the render sweep of this frame drew: the widget,
                         \* and how many events the frame had emitted by then
    cursor,              \* the cursor mouse.update chose
    frames,              \* history: per leaf, whether the last completed frame's
                         \* sweep hit it and reached its enabled event system
    regs,                \* history: per widget and kind, the registrations that
                         \* are still in force, each with the number of its call
    listened,            \* the keys of WidgetEventSystem.__triggers
    params,              \* per container: its class, and the layout's __padding,
                         \* __justify_content, __length and the widget's __anchor
    widgets,             \* gui_functions.__widgets: per id the widget, or None
                         \* where the dictionary has no such key
    wid,                 \* Widget.__id, NoId before the constructor has run
    born,                \* history: the widgets constructed, in order
    dead,                \* history: the widgets whose __del__ has run
    mode,                \* network.__info.mode
    threads,             \* the threads the network module has started, in order
    connections,         \* network.__info.connections
    data,                \* network.__info.data
    sent,                \* per connection, what the host has sent on it
    traffic,             \* how many messages have arrived from the network
    loops,               \* where each thread of the network module stands
    sock,                \* network.__socket: open or closed
    drain                \* get_data on the main thread: its position and its copy;
                         \* history: quiet, nothing was appended to the queue since
                         \* get_data last returned; again, the call follows another
                         \* get_data with nothing appended between the two
VARIABLES
    windows,             \* manager.__windows_data.windows: the names that are keys
    current_window,      \* manager.__windows_data.current_window
    wcalls               \* what the last call of the manager did to the windows,
                         \* in order: <<method, window>>
VARIABLES
    timer,               \* the fields of a Timer: __interval, __loops, __loop,
                         \* __ticks, __ended, __paused
    ticking              \* history: the update() calls since the last start(),
                         \* and which of them called on_end_func
VARIABLES
    presses              \* history, kept where the raw events are watched: per
                         \* mouse button, how its presses and releases fell into
                         \* the frames

treeVars == <<parent, children, recomputed>>
geomVars == <<rect, image>>
flagVars == <<active, disabled>>
esVars == <<widget_hovered, widget_pressed, triggers>>
mouseVars == <<coords, motion, wheel, buttons, hovered_widgets, interacted_widgets>>
frameVars == <<pc, emitted, calls, rendered, cursor, frames>>
regVars == <<widgets, wid, born, dead>>
netVars == <<mode, threads, connections, data, sent, traffic, loops, sock, drain>>
appVars == <<windows, current_window, wcalls>>
timerVars == <<timer, ticking>>
progVars == <<regs, listened, params, regVars, netVars, appVars, timerVars>>
extVars == <<progVars, presses>>
vars == <<treeVars, last, geomVars, flagVars, esVars, mouseVars, frameVars, extVars>>

----------------------------------------------------------------------------
(* Python list helpers *)

\* x in lst
InList(lst, x) == \E k \in 1..Len(lst) : lst[k] = x

\* lst.index(x), 1-based; only used when x is in lst
IndexOf(lst, x) == CHOOSE k \in 1..Len(lst) : lst[k] = x /\ \A j \in 1..(k - 1) : lst[j] # x

\* lst.remove(x): drops the first occurrence; only used when x is in lst
ListRemove(lst, x) ==
    LET k == IndexOf(lst, x)
    IN SubSeq(lst, 1, k - 1) \o SubSeq(lst, k + 1, Len(lst))

\* lst.insert(i, x) with a 0-based Python index: negative counts from the end,
\* out of range is clamped.
ListInsert(lst, i, x) ==
    LET j == IF i < 0 THEN (IF i + Len(lst) < 0 THEN 0 ELSE i + Len(lst))
             ELSE IF i > Len(lst) THEN Len(lst) ELSE i
    IN SubSeq(lst, 1, j) \o <<x>> \o SubSeq(lst, j + 1, Len(lst))

\* reversed(lst)
Reversed(lst) == [k \in 1..Len(lst) |-> lst[Len(lst) + 1 - k]]

\* how often x occurs in lst
Count(lst, x) == Cardinality({k \in 1..Len(lst) : lst[k] = x})

----------------------------------------------------------------------------
(* Rectangles are [x, y, w, h]; points are <<x, y>>.  Where a layout takes *)
(* a quotient, the lengths are whole multiples of Unit, which every        *)
(* divisor the layouts use divides, so that the integer quotient is the    *)
(* exact one.                                                              *)

Unit == 2 * 2 * 3 * 5

\* a / b for b # 0
Quot(a, b) == IF a >= 0 THEN a \div b ELSE -((-a) \div b)

Max(a, b) == IF a >= b THEN a ELSE b

Anchors == {"topleft", "topright", "bottomleft", "bottomright",
            "midbottom", "midtop", "midleft", "midright", "center"}

\* getattr(rect, anchor)
AnchorPoint(r, a) ==
    LET px == IF a \in {"topleft", "bottomleft", "midleft"} THEN r.x
              ELSE IF a \in {"topright", "bottomright", "midright"} THEN r.x + r.w
              ELSE r.x + Quot(r.w, 2)
        py == IF a \in {"topleft", "topright", "midtop"} THEN r.y
              ELSE IF a \in {"bottomleft", "bottomright", "midbottom"} THEN r.y + r.h
              ELSE r.y + Quot(r.h, 2)
    IN <<px, py>>

\* setattr(rect, anchor, pt): the rectangle moves, its size stays
MoveAnchor(r, a, pt) ==
    LET d == AnchorPoint([r EXCEPT !.x = 0, !.y = 0], a)
    IN [r EXCEPT !.x = pt[1] - d[1], !.y = pt[2] - d[2]]

\* pygame.FRect(topleft, size)
FRect(pt, size) == [x |-> pt[1], y |-> pt[2], w |-> size[1], h |-> size[2]]

----------------------------------------------------------------------------
(* The widget tree.  A heap h is the part of the state a Container call    *)
(* works on: parent, children, the rectangles, the active flags and the    *)
(* layout parameters, with the containers whose set_children_position ran  *)
(* and the exception the call has raised so far (None: none).              *)

Heap ==
    [parent |-> parent, children |-> children, recomputed |-> <<>>, raised |-> None,
     rect |-> rect, active |-> active, params |-> params]

\* Widget.set_parent without its check: a mutant.
SetParentNoCheck(h, w, p) == [h EXCEPT !.parent[w] = p]

\* Widget.set_parent that lets the current parent be set again: a mutant.
SetParentAllowsSame(h, w, p) ==
    IF ~(h.parent[w] = None \/ p = None) /\ h.parent[w] # p
    THEN [h EXCEPT !.raised = "WidgetHasParentError"]
    ELSE [h EXCEPT !.parent[w] = p]

\* Widget.set_parent
SetParent(h, w, p) ==
    IF ~(h.parent[w] = None \/ p = None)
    THEN [h EXCEPT !.raised = "WidgetHasParentError"]
    ELSE [h EXCEPT !.parent[w] = p]

\* Container.get_children(True)
ActiveChildren(h, c) == SelectSeq(h.children[c], LAMBDA w : h.active[w])

\* the sum of child.get_width() over a list of children
RECURSIVE SumWidth(_, _)
SumWidth(h, lst) ==
    IF lst = <<>> THEN 0 ELSE h.rect[Head(lst)].w + SumWidth(h, Tail(lst))

\* content_size.y = max(child.get_height(), content_size.y), from 0
RECURSIVE MaxHeight(_, _)
MaxHeight(h, lst) ==
    IF lst = <<>> THEN 0 ELSE Max(h.rect[Head(lst)].h, MaxHeight(h, Tail(lst)))

\* The second loop with the padding left out of the advance: a mutant.
RECURSIVE PlaceRowTight(_, _, _, _, _)
PlaceRowTight(h, lst, mx, my, pad) ==
    IF lst = <<>> THEN h
    ELSE LET child == Head(lst)
             h1 == [h EXCEPT !.rect[child] = MoveAnchor(@, "midleft", <<mx, my>>)]
         IN PlaceRowTight(h1, Tail(lst), mx + h1.rect[child].w, my, pad)

\* HorizontalLayout.set_children_position, second loop: each child in turn
\* is moved with its midleft to the running point, which then advances.
RECURSIVE PlaceRow(_, _, _, _, _)
PlaceRow(h, lst, mx, my, pad) ==
    IF lst = <<>> THEN h
    ELSE LET child == Head(lst)
             h1 == [h EXCEPT !.rect[child] = MoveAnchor(@, "midleft", <<mx, my>>)]
         IN PlaceRow(h1, Tail(lst), mx + h1.rect[child].w + pad, my, pad)

\* GridLayout.set_children_position, first loop: s is [row, content], the
\* running row_content_size and content_size; a row is folded into
\* content_size when its last column is filled.
RECURSIVE GridFold(_, _, _, _, _)
GridFold(h, lst, index, p, s) ==
    IF index >= Len(lst) THEN s.content
    ELSE LET child == lst[index + 1]
             row == <<s.row[1] + h.rect[child].w + p.padding,
                      Max(h.rect[child].h, s.row[2])>>
         IN IF (index + 1) % p.length = 0
            THEN GridFold(h, lst, index + 1, p,
                          [row |-> <<0, 0>>,
                           content |-> <<Max(row[1], s.content[1]),
                                         s.content[2] + row[2] + p.padding>>])
            ELSE GridFold(h, lst, index + 1, p, [s EXCEPT !.row = row])

\* GridLayout.set_children_position, second loop: each child in turn is
\* moved with its top-left corner to the running point.
RECURSIVE GridPlace(_, _, _, _, _, _)
GridPlace(h, lst, index, length, step, pt) ==
    IF index >= Len(lst) THEN h
    ELSE LET child == lst[index + 1]
             h1 == [h EXCEPT !.rect[child] = MoveAnchor(@, "topleft", pt)]
         IN GridPlace(h1, lst, index + 1, length, step,
                      IF (index + 1) % length = 0 THEN <<0, pt[2] + step[2]>>
                      ELSE <<pt[1] + step[1], pt[2]>>)

RECURSIVE SetChildrenPosition(_, _)

\* Container.set_children_position: the base class only hands the call to a
\* parent that is a Container.
ContainerSetChildrenPosition(h, c) ==
    IF IsContainer(h.parent[c]) THEN SetChildrenPosition(h, h.parent[c]) ELSE h

\* HorizontalLayout.set_children_position
HorizontalSetChildrenPosition(h, c) ==
    LET p == h.params[c]
        kids == ActiveChildren(h, c)
        amount == Len(kids)
        fixed == p.justify_content = "PADDING"
        cx == -p.padding + SumWidth(h, kids) + (IF fixed THEN amount * p.padding ELSE 0)
        cy == MaxHeight(h, kids)
        corner == AnchorPoint(h.rect[c], p.anchor)
        padding == IF fixed THEN p.padding
                   ELSE IF p.justify_content = "SPACE_BETWEEN"
                        THEN (IF amount > 1 THEN Quot(p.length - cx, amount - 1) ELSE 0)
                        ELSE Quot(p.length - cx, amount + 1)
        r == MoveAnchor(FRect(<<0, 0>>, IF fixed THEN <<cx, cy>> ELSE <<p.length, cy>>),
                        p.anchor, corner)
        h1 == [h EXCEPT !.rect[c] = r]
        h2 == PlaceRow(h1, kids,
                       IF p.justify_content = "SPACE_EVENLY" THEN padding ELSE 0,
                       Quot(r.h, 2), padding)
    IN ContainerSetChildrenPosition(h2, c)

\* GridLayout.set_children_position.  It divides by __length in the first
\* loop and by the number of rows after the rectangle is set; a zero divisor
\* raises ZeroDivisionError there.
GridSetChildrenPosition(h, c) ==
    LET p == h.params[c]
        kids == ActiveChildren(h, c)
    IN IF p.length = 0 /\ kids # <<>> THEN [h EXCEPT !.raised = "ZeroDivisionError"]
       ELSE LET folded == GridFold(h, kids, 0, p,
                                   [row |-> <<0, 0>>, content |-> <<0, 0>>])
                content == <<folded[1] - p.padding, folded[2] - p.padding>>
                corner == AnchorPoint(h.rect[c], p.anchor)
                h1 == [h EXCEPT !.rect[c] =
                                   MoveAnchor(FRect(<<0, 0>>, content), p.anchor, corner)]
                rows == IF p.length = 0 THEN 0
                        ELSE (Len(kids) + p.length - 1) \div p.length
            IN IF rows = 0 THEN [h1 EXCEPT !.raised = "ZeroDivisionError"]
               ELSE ContainerSetChildrenPosition(
                        GridPlace(h1, kids, 0, p.length,
                                  <<Quot(content[1] + p.padding, p.length),
                                    Quot(content[2] + p.padding, rows)>>,
                                  <<0, 0>>), c)

\* Widget.get_absolute_rect
RECURSIVE AbsoluteRectIn(_, _)
AbsoluteRectIn(h, o) ==
    IF h.parent[o] = None THEN h.rect[o]
    ELSE LET p == AbsoluteRectIn(h, h.parent[o])
         IN [h.rect[o] EXCEPT !.x = @ + p.x, !.y = @ + p.y]

\* -float("inf"): a length below every length of the model
NegInf == -(Unit * Unit * Unit)

\* The loop of FloatLayout.set_children_position: the greatest right and
\* bottom of the children's absolute rectangles, from -inf.
RECURSIVE RightBottom(_, _)
RightBottom(h, lst) ==
    IF lst = <<>> THEN <<NegInf, NegInf>>
    ELSE LET r == AbsoluteRectIn(h, Head(lst))
             rest == RightBottom(h, Tail(lst))
         IN <<Max(r.x + r.w, rest[1]), Max(r.y + r.h, rest[2])>>

\* FloatLayout.set_children_position: the rectangle keeps its top-left
\* corner and reaches to the children's right bottom; the method of the
\* base class is not called.
FloatSetChildrenPosition(h, c) ==
    LET rb == RightBottom(h, ActiveChildren(h, c))
        r == h.rect[c]
    IN [h EXCEPT !.rect[c] =
           FRect(<<r.x, r.y>>,
                 <<IF rb[1] = NegInf THEN NegInf ELSE rb[1] - r.x,
                   IF rb[2] = NegInf THEN NegInf ELSE rb[2] - r.y>>)]

\* c.set_children_position(), by the class of c
SetChildrenPosition(h, c) ==
    LET h1 == [h EXCEPT !.recomputed = Append(@, c)]
    IN IF h.params[c].kind = "HorizontalLayout" THEN HorizontalSetChildrenPosition(h1, c)
       ELSE IF h.params[c].kind = "GridLayout" THEN GridSetChildrenPosition(h1, c)
       ELSE IF h.params[c].kind = "FloatLayout" THEN FloatSetChildrenPosition(h1, c)
       ELSE ContainerSetChildrenPosition(h1, c)

\* Container._add
ContainerAdd(h, c, child) ==
    IF ~IsWidget(child) THEN [h EXCEPT !.raised = "ValueError"]
    ELSE LET h1 == SetParent(h, child, c)
         IN IF h1.raised # None THEN h1
            ELSE SetChildrenPosition(
                     [h1 EXCEPT !.children[c] = Append(@, child)], c)

\* Container._remove: the back-reference is cleared first, then list.remove
\* raises ValueError when the child is not in the list.
ContainerRemove(h, c, child) ==
    LET h1 == SetParent(h, child, None)
    IN IF ~InList(h1.children[c], child) THEN [h1 EXCEPT !.raised = "ValueError"]
       ELSE SetChildrenPosition(
                [h1 EXCEPT !.children[c] = ListRemove(@, child)], c)

\* Container.insert_widget
ContainerInsertWidget(h, c, index, widget) ==
    LET p == h.parent[widget]
        h1 == IF p # None /\ IsContainer(p) THEN ContainerRemove(h, p, widget) ELSE h
    IN IF h1.raised # None THEN h1
       ELSE LET h2 == SetParent(h1, widget, c)
            IN IF h2.raised # None THEN h2
               ELSE SetChildrenPosition(
                        [h2 EXCEPT !.children[c] = ListInsert(@, index, widget)], c)

\* The setter of Widget.active: activating a child of a Container runs the
\* parent's set_children_position; deactivating it runs nothing.
WidgetSetActive(h, w, value) ==
    LET h1 == [h EXCEPT !.active[w] = value]
    IN IF value /\ IsContainer(h.parent[w]) THEN SetChildrenPosition(h1, h.parent[w])
       ELSE h1

\* Widget.set_image that takes every anchor for the top-left corner: a mutant.
WidgetSetImageTopLeft(h, w, size, anchor) ==
    LET pt == AnchorPoint(h.rect[w], "topleft")
        h1 == [h EXCEPT !.rect[w] = IF size = <<>> THEN FRect(pt, <<0, 0>>)
                                    ELSE FRect(pt, size)]
    IN IF IsContainer(h.parent[w]) THEN SetChildrenPosition(h1, h.parent[w]) ELSE h1

\* set_image(None, ...): the size of no surface
NoSurface == <<>>

\* Widget.set_image with a surface of the given size, or with None: the new
\* rectangle has the old one's anchor point; a parent that is a Container
\* then places its children.
WidgetSetImage(h, w, size, anchor) ==
    LET pt == AnchorPoint(h.rect[w], anchor)
        h1 == [h EXCEPT !.rect[w] = IF size = NoSurface THEN FRect(pt, <<0, 0>>)
                                    ELSE MoveAnchor(FRect(<<0, 0>>, size), anchor, pt)]
    IN IF IsContainer(h.parent[w]) THEN SetChildrenPosition(h1, h.parent[w]) ELSE h1

\* The setter of HorizontalLayout.padding names set_children_position
\* without calling it; the setter of GridLayout.padding calls it.
SetPadding(h, c, value) ==
    LET h1 == [h EXCEPT !.params[c].padding = value]
    IN IF h.params[c].kind = "GridLayout" THEN SetChildrenPosition(h1, c) ELSE h1

\* GridLayout.set_length
SetLength(h, c, value) ==
    SetChildrenPosition([h EXCEPT !.params[c].length = value], c)

\* Container.clear: a for loop over the list it removes from.  The list
\* iterator keeps a position k (0-based) and stops when k reaches the current
\* length.
RECURSIVE ClearLoop(_, _, _)
ClearLoop(h, c, k) ==
    IF k >= Len(h.children[c]) THEN h
    ELSE LET child == h.children[c][k + 1]
             h1 == SetParent(h, child, None)
         IN ClearLoop([h1 EXCEPT !.children[c] = ListRemove(@, child)], c, k + 1)

ContainerClear(h, c) == ClearLoop(h, c, 0)

----------------------------------------------------------------------------
(* The calls of the container interface as actions.  A call that raises    *)
(* keeps what it had done up to the raise.                                 *)

treeIdle == UNCHANGED <<extVars, image, flagVars, esVars, mouseVars, frameVars>>

\* The heap a call ends with becomes the state.
Commit(h) ==
    /\ parent' = h.parent
    /\ children' = h.children
    /\ recomputed' = h.recomputed
    /\ rect' = h.rect
    /\ treeIdle

\* Container.add with one widget
Add(c, x) ==
    /\ Len(children[c]) < MaxChildren
    /\ Commit(ContainerAdd(Heap, c, x))
    /\ last' = [op |-> "add", c |-> c, w |-> x, i |-> 0,
                raised |-> ContainerAdd(Heap, c, x).raised,
                n |-> last.n]

\* Container.remove with one widget
Remove(c, w) ==
    /\ Commit(ContainerRemove(Heap, c, w))
    /\ last' = [op |-> "remove", c |-> c, w |-> w, i |-> 0,
                raised |-> ContainerRemove(Heap, c, w).raised,
                n |-> last.n]

\* Container.insert_widget
InsertWidget(c, i, w) ==
    /\ Len(children[c]) < MaxChildren
    /\ Commit(ContainerInsertWidget(Heap, c, i, w))
    /\ last' = [op |-> "insert_widget", c |-> c, w |-> w, i |-> i,
                raised |-> ContainerInsertWidget(Heap, c, i, w).raised,
                n |-> last.n]

\* Container.clear
Clear(c) ==
    /\ Commit(ContainerClear(Heap, c))
    /\ last' = [op |-> "clear", c |-> c, w |-> None, i |-> 0,
                raised |-> ContainerClear(Heap, c).raised,
                n |-> last.n]

\* A direct call of Widget.set_parent by application code.
CallSetParent(w, p) ==
    /\ Commit(SetParent(Heap, w, p))
    /\ last' = [op |-> "set_parent", c |-> p, w |-> w, i |-> 0,
                raised |-> SetParent(Heap, w, p).raised,
                n |-> last.n]

NoCall == [op |-> "none", c |-> None, w |-> None, i |-> 0, raised |-> None, n |-> 0]

----------------------------------------------------------------------------
(* Geometry.  Rectangles are [x, y, w, h]; points are <<x, y>>.            *)

\* Widget.get_absolute_rect: the rectangle moved by the parent's absolute
\* top-left corner.
RECURSIVE AbsoluteRect(_)
AbsoluteRect(o) ==
    IF parent[o] = None THEN rect[o]
    ELSE LET p == AbsoluteRect(parent[o])
         IN [rect[o] EXCEPT !.x = @ + p.x, !.y = @ + p.y]

\* Widget.collide_point: FRect.collidepoint leaves out the right and the
\* bottom edge.
CollidePoint(o, pt) ==
    LET r == AbsoluteRect(o)
    IN /\ r.x <= pt[1] /\ pt[1] < r.x + r.w
       /\ r.y <= pt[2] /\ pt[2] < r.y + r.h

----------------------------------------------------------------------------
(* The event system.  A sweep state s carries what one update sweep reads  *)
(* and writes: the hover and pressed flags, the mouse module's two widget  *)
(* lists, and the logs of the frame.                                       *)

Kinds == {"HOVER_IN", "HOVER", "HOVER_OUT", "PRESS", "HOLD", "DRAG", "RELEASE",
          "SCROLL_WHEEL_UP", "SCROLL_WHEEL_DOWN", "CLICK",
          "ON_PREV_UPDATE", "ON_POST_UPDATE", "ON_PREV_RENDER", "ON_POST_RENDER"}

\* pygame.Event(kind, user_event=True)
PlainEvent(kind) == [kind |-> kind, num |-> 0, hit |-> FALSE]

\* pygame.Event(kind, button=button, hit=hit, user_event=True)
ButtonEvent(kind, num, hit) == [kind |-> kind, num |-> num, hit |-> hit]

Sweep ==
    [hovered |-> widget_hovered, pressed |-> widget_pressed,
     hw |-> hovered_widgets, iw |-> interacted_widgets,
     emitted |-> emitted, calls |-> calls, rendered |-> rendered]

\* WidgetEventSystem._trigger_event: the listeners of the event's kind are
\* called in list order.
WidgetTriggerEvent(s, w, ev) ==
    [s EXCEPT
        !.emitted = Append(@, [w |-> w, kind |-> ev.kind, num |-> ev.num, hit |-> ev.hit]),
        !.calls = @ \o [k \in 1..Len(triggers[w][ev.kind]) |->
                           [w |-> w, kind |-> ev.kind, num |-> ev.num,
                            listener |-> triggers[w][ev.kind][k]]]]

\* ButtonEventSystem._trigger_event with the click made for every release: a mutant.
ButtonTriggerEventAnyRelease(s, w, ev) ==
    IF ev.kind = "RELEASE" /\ s.pressed[w][ev.num]
    THEN WidgetTriggerEvent(WidgetTriggerEvent(s, w, [ev EXCEPT !.kind = "CLICK"]), w, ev)
    ELSE WidgetTriggerEvent(s, w, ev)

\* ButtonEventSystem._trigger_event: for a release of a pressed button that
\* hits, the click (the release's attributes under kind CLICK) is triggered
\* first, then the release goes to the base class.
ButtonTriggerEvent(s, w, ev) ==
    IF ev.kind = "RELEASE" /\ s.pressed[w][ev.num] /\ ev.hit
    THEN WidgetTriggerEvent(WidgetTriggerEvent(s, w, [ev EXCEPT !.kind = "CLICK"]), w, ev)
    ELSE WidgetTriggerEvent(s, w, ev)

\* self._trigger_event(event), by the class of the widget's event system
TriggerEvent(s, w, ev) ==
    IF Class(w) = "Button" THEN ButtonTriggerEvent(s, w, ev)
    ELSE WidgetTriggerEvent(s, w, ev)

\* The hover part without the reset of the flag on hover-out: a mutant.
HoverStepKeepsFlag(s, w, hit) ==
    IF s.hovered[w]
    THEN IF hit THEN TriggerEvent(s, w, PlainEvent("HOVER"))
         ELSE TriggerEvent(s, w, PlainEvent("HOVER_OUT"))
    ELSE IF hit THEN [TriggerEvent(s, w, PlainEvent("HOVER_IN")) EXCEPT !.hovered[w] = TRUE]
         ELSE s

\* The hover part of WidgetEventSystem._on_update
HoverStep(s, w, hit) ==
    IF s.hovered[w]
    THEN IF hit THEN TriggerEvent(s, w, PlainEvent("HOVER"))
         ELSE [TriggerEvent(s, w, PlainEvent("HOVER_OUT")) EXCEPT !.hovered[w] = FALSE]
    ELSE IF hit THEN [TriggerEvent(s, w, PlainEvent("HOVER_IN")) EXCEPT !.hovered[w] = TRUE]
         ELSE s

\* The wheel part of WidgetEventSystem._on_update
WheelStep(s, w) ==
    IF s.hovered[w]
    THEN LET s1 == IF wheel = "UP" THEN TriggerEvent(s, w, PlainEvent("SCROLL_WHEEL_UP"))
                   ELSE IF wheel = "DOWN"
                        THEN TriggerEvent(s, w, PlainEvent("SCROLL_WHEEL_DOWN"))
                        ELSE s
         IN [s1 EXCEPT !.hw = Append(@, w)]
    ELSE s

\* The round that holds and drags only while the pointer hits: a mutant.
ButtonStepNeedsHit(s, w, i, hit) ==
    IF s.pressed[w][i]
    THEN IF buttons[i] = "HOLD"
         THEN IF hit THEN TriggerEvent([s EXCEPT !.iw = Append(@, w)], w,
                                       ButtonEvent(IF motion THEN "DRAG" ELSE "HOLD", i, hit))
              ELSE s
         ELSE IF buttons[i] = "RELEASE"
              THEN [TriggerEvent([s EXCEPT !.iw = Append(@, w)], w,
                                 ButtonEvent("RELEASE", i, hit))
                      EXCEPT !.pressed[w][i] = FALSE]
              ELSE s
    ELSE IF hit /\ buttons[i] = "PRESS"
         THEN [TriggerEvent([s EXCEPT !.iw = Append(@, w)], w, ButtonEvent("PRESS", i, hit))
                 EXCEPT !.pressed[w][i] = TRUE]
         ELSE s

\* The round in which a release leaves the pressed flag set: a mutant.
ButtonStepKeepsFlag(s, w, i, hit) ==
    IF s.pressed[w][i]
    THEN IF buttons[i] = "HOLD"
         THEN TriggerEvent([s EXCEPT !.iw = Append(@, w)], w,
                           ButtonEvent(IF motion THEN "DRAG" ELSE "HOLD", i, hit))
         ELSE IF buttons[i] = "RELEASE"
              THEN TriggerEvent([s EXCEPT !.iw = Append(@, w)], w,
                                ButtonEvent("RELEASE", i, hit))
              ELSE s
    ELSE IF hit /\ buttons[i] = "PRESS"
         THEN [TriggerEvent([s EXCEPT !.iw = Append(@, w)], w, ButtonEvent("PRESS", i, hit))
                 EXCEPT !.pressed[w][i] = TRUE]
         ELSE s

\* One round of the loop over the mouse buttons in WidgetEventSystem._on_update
ButtonStep(s, w, i, hit) ==
    IF s.pressed[w][i]
    THEN IF buttons[i] = "HOLD"
         THEN TriggerEvent([s EXCEPT !.iw = Append(@, w)], w,
                           ButtonEvent(IF motion THEN "DRAG" ELSE "HOLD", i, hit))
         ELSE IF buttons[i] = "RELEASE"
              THEN [TriggerEvent([s EXCEPT !.iw = Append(@, w)], w,
                                 ButtonEvent("RELEASE", i, hit))
                      EXCEPT !.pressed[w][i] = FALSE]
              ELSE s
    ELSE IF hit /\ buttons[i] = "PRESS"
         THEN [TriggerEvent([s EXCEPT !.iw = Append(@, w)], w, ButtonEvent("PRESS", i, hit))
                 EXCEPT !.pressed[w][i] = TRUE]
         ELSE s

\* for i in range(1, 4)
RECURSIVE ButtonLoop(_, _, _, _)
ButtonLoop(s, w, i, hit) ==
    IF i > NumButtons THEN s
    ELSE ButtonLoop(ButtonStep(s, w, i, hit), w, i + 1, hit)

\* WidgetEventSystem._on_update
EventSystemOnUpdate(s, w) ==
    IF disabled[w] THEN s
    ELSE LET hit == CollidePoint(w, coords)
         IN ButtonLoop(WheelStep(HoverStep(s, w, hit), w), w, 1, hit)

\* WidgetEventSystem.uptate that does not look at the disabled flag: a mutant.
UptateIgnoresDisabled(s, w) ==
    LET hit == CollidePoint(w, coords)
    IN ButtonLoop(WheelStep(HoverStep(s, w, hit), w), w, 1, hit)

\* WidgetEventSystem.uptate
Uptate(s, w) == IF disabled[w] THEN s ELSE EventSystemOnUpdate(s, w)

\* Widget._on_update with the post-update event ahead of the event
\* system: a mutant.
WidgetOnUpdatePostFirst(s, w) ==
    LET s1 == TriggerEvent(s, w, PlainEvent("ON_PREV_UPDATE"))
        s2 == TriggerEvent(s1, w, PlainEvent("ON_POST_UPDATE"))
    IN Uptate(s2, w)

\* Widget._on_update
WidgetOnUpdate(s, w) ==
    LET s1 == TriggerEvent(s, w, PlainEvent("ON_PREV_UPDATE"))
        s2 == Uptate(s1, w)
    IN TriggerEvent(s2, w, PlainEvent("ON_POST_UPDATE"))

\* Widget._on_render: the image is drawn between the two render events
WidgetOnRender(s, w) ==
    LET s1 == TriggerEvent(s, w, PlainEvent("ON_PREV_RENDER"))
        s2 == IF image[w] # None
              THEN [s1 EXCEPT !.rendered = Append(@, [w |-> w, at |-> Len(s1.emitted)])]
              ELSE s1
    IN TriggerEvent(s2, w, PlainEvent("ON_POST_RENDER"))

RECURSIVE WidgetUpdate(_, _), UpdateAll(_, _), WidgetRender(_, _), RenderAll(_, _)

\* child.update() for each child of a list, in list order
UpdateAll(s, lst) ==
    IF lst = <<>> THEN s ELSE UpdateAll(WidgetUpdate(s, Head(lst)), Tail(lst))

\* child.render(surface, offset) for each child of a list, in list order
RenderAll(s, lst) ==
    IF lst = <<>> THEN s ELSE RenderAll(WidgetRender(s, Head(lst)), Tail(lst))

\* Container._on_update with the children in list order: a mutant.
ContainerOnUpdateInOrder(s, c) == WidgetOnUpdate(UpdateAll(s, children[c]), c)

\* Container._on_update: the children in reverse order, then the container
ContainerOnUpdate(s, c) == WidgetOnUpdate(UpdateAll(s, Reversed(children[c])), c)

\* Container._on_render: the container, then the children in order
ContainerOnRender(s, c) == RenderAll(WidgetOnRender(s, c), children[c])

\* self._on_update(), by the class of the widget
OnUpdate(s, w) == IF IsContainer(w) THEN ContainerOnUpdate(s, w) ELSE WidgetOnUpdate(s, w)

\* self._on_render(surface, offset), by the class of the widget
OnRender(s, w) == IF IsContainer(w) THEN ContainerOnRender(s, w) ELSE WidgetOnRender(s, w)

\* Widget.update without the check of the active flag: a mutant.
WidgetUpdateIgnoresActive(s, w) == OnUpdate(s, w)

\* Widget.update
WidgetUpdate(s, w) == IF active[w] THEN OnUpdate(s, w) ELSE s

\* Widget.render
WidgetRender(s, w) == IF active[w] THEN OnRender(s, w) ELSE s

----------------------------------------------------------------------------
(* The frame loop of App: mouse.update(), the pygame events of the frame,  *)
(* manager.update(), manager.render().                                     *)

\* The window's main layout, whose update and render the manager calls.
Root == "A"

\* Where the pointer can be (see InitEvents for the rectangles): far from
\* w1, on w1's top-left corner, inside w1, on w1's right edge.
Points == {<<0, 0>>, <<1, 1>>, <<2, 1>>, <<3, 1>>}

\* Widget.get_cursor and Button.get_cursor
GetCursor(w) ==
    IF Class(w) = "Button"
    THEN IF \E i \in ButtonNums : widget_pressed[w][i] THEN <<"clicked", w>>
         ELSE IF widget_hovered[w] THEN <<"hovered", w>>
         ELSE None
    ELSE None

\* The two loops of mouse.update that pick the cursor: the first widget with
\* a cursor, the interacted widgets before the hovered ones.
RECURSIVE FirstCursor(_)
FirstCursor(lst) ==
    IF lst = <<>> THEN None
    ELSE IF GetCursor(Head(lst)) # None THEN GetCursor(Head(lst))
    ELSE FirstCursor(Tail(lst))

\* mouse.update that leaves the states of the buttons as they are: a mutant.
MouseUpdateKeepsButtons ==
    /\ pc = "frame"
    /\ cursor' = LET c == FirstCursor(interacted_widgets \o hovered_widgets)
                 IN IF c # None THEN c ELSE "default"
    /\ hovered_widgets' = <<>>
    /\ interacted_widgets' = <<>>
    /\ wheel' = "NO_STATE"
    /\ motion' = FALSE
    /\ coords' \in Points
    /\ buttons' = buttons
    /\ pc' = "events"
    /\ emitted' = <<>>
    /\ calls' = <<>>
    /\ rendered' = <<>>
    /\ UNCHANGED <<extVars, treeVars, last, geomVars, flagVars, esVars, frames>>

\* mouse.update.  The previous coordinates it also stores are read by nothing
\* in the widget code and are left out.
DoMouseUpdate ==
    /\ pc = "frame"
    /\ cursor' = LET c == FirstCursor(interacted_widgets \o hovered_widgets)
                 IN IF c # None THEN c ELSE "default"
    /\ hovered_widgets' = <<>>
    /\ interacted_widgets' = <<>>
    /\ wheel' = "NO_STATE"
    /\ motion' = FALSE
    /\ coords' \in Points
    /\ buttons' = [i \in ButtonNums |->
                     IF buttons[i] = "PRESS" THEN "HOLD"
                     ELSE IF buttons[i] = "RELEASE" THEN "NO_STATE"
                     ELSE buttons[i]]
    /\ pc' = "events"
    /\ emitted' = <<>>
    /\ calls' = <<>>
    /\ rendered' = <<>>
    /\ UNCHANGED <<progVars, treeVars, last, geomVars, flagVars, esVars, frames>>

\* mouse.update where nobody watches the raw events
MouseUpdate == DoMouseUpdate /\ UNCHANGED presses

rawIdle ==
    UNCHANGED <<progVars, treeVars, last, geomVars, flagVars, esVars, frameVars,
                hovered_widgets, interacted_widgets, coords>>

eventIdle == rawIdle /\ UNCHANGED presses

\* pygame.MOUSEBUTTONDOWN: mouse.press_button
DoPressButton(i) ==
    /\ pc = "events"
    /\ buttons' = [buttons EXCEPT ![i] = "PRESS"]
    /\ UNCHANGED <<motion, wheel>>
    /\ rawIdle

PressButton(i) == DoPressButton(i) /\ UNCHANGED presses

\* pygame.MOUSEBUTTONUP with a button up to 3: mouse.release_button
DoReleaseButton(i) ==
    /\ pc = "events"
    /\ buttons' = [buttons EXCEPT ![i] = "RELEASE"]
    /\ UNCHANGED <<motion, wheel>>
    /\ rawIdle

ReleaseButton(i) == DoReleaseButton(i) /\ UNCHANGED presses

\* pygame.MOUSEMOTION: mouse.move
Move ==
    /\ pc = "events"
    /\ motion' = TRUE
    /\ UNCHANGED <<buttons, wheel>>
    /\ eventIdle

\* pygame.MOUSEBUTTONUP with button 4: mouse.scroll_wheel_up
ScrollWheelUp ==
    /\ pc = "events"
    /\ wheel' = "UP"
    /\ UNCHANGED <<buttons, motion>>
    /\ eventIdle

\* pygame.MOUSEBUTTONUP with button 5: mouse.scroll_wheel_down
ScrollWheelDown ==
    /\ pc = "events"
    /\ wheel' = "DOWN"
    /\ UNCHANGED <<buttons, motion>>
    /\ eventIdle

\* Whether the sweep from the main layout reaches w: w hangs below Root and
\* w and its ancestors are active.
RECURSIVE Reached(_)
Reached(w) == active[w] /\ (w = Root \/ (parent[w] # None /\ Reached(parent[w])))

\* Whether the sweep runs w's event system: it reaches w and the event
\* system is not disabled.
Live(w) == Reached(w) /\ ~disabled[w]

\* manager.update: Window.update calls the main layout's update.
DoUpdate ==
    /\ pc = "events"
    /\ LET s == WidgetUpdate(Sweep, Root)
       IN /\ widget_hovered' = s.hovered
          /\ widget_pressed' = s.pressed
          /\ hovered_widgets' = s.hw
          /\ interacted_widgets' = s.iw
          /\ emitted' = s.emitted
          /\ calls' = s.calls
    /\ pc' = "render"
    /\ UNCHANGED <<progVars, treeVars, last, geomVars, flagVars, triggers, coords, motion, wheel,
                   buttons, rendered, cursor, frames>>

\* manager.update where nobody watches the raw events
Update == DoUpdate /\ UNCHANGED presses

\* manager.render: Window.render calls the main layout's render.  The frame
\* ends here: frames records what its sweep saw (the pointer and the flags
\* have not changed since the sweep).
Render ==
    /\ pc = "render"
    /\ LET s == WidgetRender(Sweep, Root)
       IN /\ emitted' = s.emitted
          /\ calls' = s.calls
          /\ rendered' = s.rendered
    /\ frames' = [w \in Leaves |->
                    [hit_before |-> CollidePoint(w, coords), live_before |-> Live(w)]]
    /\ pc' = "frame"
    /\ UNCHANGED <<extVars, treeVars, last, geomVars, flagVars, esVars, mouseVars, cursor>>

\* The setter of Widget.active, called by application code between frames:
\* activating a child of a Container runs the parent's set_children_position.
SetActive(w, value) ==
    /\ pc = "frame"
    /\ active' = WidgetSetActive(Heap, w, value).active
    /\ recomputed' = WidgetSetActive(Heap, w, value).recomputed
    /\ rect' = WidgetSetActive(Heap, w, value).rect
    /\ UNCHANGED <<extVars, parent, children, last, image, disabled, esVars, mouseVars, frameVars>>

\* Widget.set_disabled, called by application code between frames.
SetDisabled(w, value) ==
    /\ pc = "frame"
    /\ disabled' = [disabled EXCEPT ![w] = value]
    /\ UNCHANGED <<extVars, treeVars, last, geomVars, active, esVars, mouseVars, frameVars>>

----------------------------------------------------------------------------------------------------------------------------------------------------
(* The Timer.  A timer t is the record of its fields; update gives the new *)
(* timer and the callback it called (None: none).                          *)

\* Timer.__init__
Timer(interval, n_loops) ==
    [interval |-> interval, loops |-> n_loops, loop |-> n_loops, ticks |-> 0,
     ended |-> TRUE, paused |-> FALSE]

\* Timer.start
TimerStart(t) ==
    [t EXCEPT !.ticks = 0, !.loop = t.loops, !.ended = FALSE, !.paused = FALSE]

\* Timer.stop
TimerStop(t) ==
    [t EXCEPT !.ticks = 0, !.loop = t.loops, !.ended = TRUE, !.paused = FALSE]

\* Timer.pause
TimerPause(t) == [t EXCEPT !.paused = TRUE]

\* Timer.resume
TimerResume(t) == [t EXCEPT !.paused = FALSE]

\* Timer.update, both callbacks given
TimerUpdate(t) ==
    IF t.ended \/ t.paused THEN [t |-> t, called |-> None]
    ELSE LET ticks == t.ticks + 1
             loop == t.loop - 1
             ended == loop <= 0
         IN IF ticks >= t.interval
            THEN [t |-> [t EXCEPT !.loop = loop, !.ended = ended,
                                  !.ticks = IF ended THEN ticks ELSE 1],
                  called |-> "on_end_func"]
            ELSE [t |-> [t EXCEPT !.ticks = ticks], called |-> "on_update_func"]

\* The interval of the timer of a BaseWindow.
BaseInterval == 20

\* No start() yet: no update counted.  n counts the update() calls since
\* start(), ends lists the ones among them that called on_end_func, steady
\* says that neither pause() nor stop() was called since, late that a
\* callback was called after on_end_func had been called loops times.
NoTicks == [started |-> FALSE, n |-> 0, ends |-> <<>>, steady |-> TRUE, late |-> FALSE]

\* self.__timer = Timer(20, on_end_func=self.__process_timer_end)
InitTimer ==
    /\ timer = Timer(BaseInterval, 1)
    /\ ticking = NoTicks

----
(* Initial states and specifications *)

ZeroRect == [x |-> 0, y |-> 0, w |-> 0, h |-> 0]

\* No raw event of the button has been watched yet.
NoPress == [open |-> FALSE, on |-> {}, down |-> FALSE, over |-> {}, ended |-> {}]

NoFrames == [w \in Leaves |->
               [hit_before |-> FALSE, live_before |-> TRUE]]

\* Container.__init__ of the base class: no layout parameters but the anchor.
PlainContainer ==
    [kind |-> "Container", padding |-> 0, justify_content |-> "PADDING",
     length |-> 0, anchor |-> "center"]

NoRegs == [o \in Objs |-> [k \in Kinds |-> <<>>]]

\* Widget.__id before the constructor has set it.
NoId == -1

\* The keys the registry can come to have.
Ids == 0..Cardinality(Objs)

\* The order in which the application constructs its widgets.
Constructed == <<"A", "B", "w1", "w2", "w3">>

\* The registry after the constructors of all widgets have run, in order.
InitRegistered ==
    /\ widgets = [i \in Ids |-> IF i < Len(Constructed) THEN Constructed[i + 1] ELSE None]
    /\ wid = [o \in Objs |-> CHOOSE i \in Ids : i < Len(Constructed) /\ Constructed[i + 1] = o]
    /\ born = Constructed
    /\ dead = {}

\* The network module as its import leaves it.
InitOffline ==
    /\ mode = None
    /\ threads = <<>>
    /\ connections = <<>>
    /\ data = <<>>
    /\ sent = [c \in Conns |-> <<>>]
    /\ traffic = 0
    /\ loops = [t \in Conns \cup {"server", "client"} |-> "none"]
    /\ sock = "open"
    /\ drain = [pc |-> "idle", copy |-> <<>>, quiet |-> FALSE, again |-> FALSE]

\* manager.__windows_data = __WindowsData()
InitManager ==
    /\ windows = {}
    /\ current_window = None
    /\ wcalls = <<>>

\* Plain containers; no add_listener call is on record.
InitPlain ==
    /\ params = [c \in Containers |-> PlainContainer]
    /\ regs = NoRegs
    /\ InitRegistered

\* The keys of a dictionary of listener lists that was filled for every kind
\* or for none.
KeysOf(tr) == [o \in Objs |-> {k \in Kinds : tr[o][k] # <<>>}]

\* What the constructors leave behind, apart from the tree, the geometry and
\* the timer.
InitCore ==
    /\ recomputed = <<>>
    /\ last = NoCall
    /\ active = [o \in Objs |-> TRUE]
    /\ disabled = [o \in Objs |-> FALSE]
    /\ widget_hovered = [o \in Objs |-> FALSE]
    /\ widget_pressed = [o \in Objs |-> [i \in ButtonNums |-> FALSE]]
    /\ coords = <<0, 0>>
    /\ motion = FALSE
    /\ wheel = "NO_STATE"
    /\ buttons = [i \in ButtonNums |-> "NO_STATE"]
    /\ hovered_widgets = <<>>
    /\ interacted_widgets = <<>>
    /\ emitted = <<>>
    /\ calls = <<>>
    /\ rendered = <<>>
    /\ cursor = "default"
    /\ frames = NoFrames
    /\ InitOffline
    /\ InitManager
    /\ presses = [i \in ButtonNums |-> NoPress]

\* The same with the timer of a BaseWindow.
InitCommon == InitCore /\ InitTimer

\* Freshly constructed widgets without images, in no container.
InitTree ==
    /\ InitCommon
    /\ InitPlain
    /\ parent = [o \in Objs |-> None]
    /\ children = [c \in Containers |-> <<>>]
    /\ rect = [o \in Objs |-> ZeroRect]
    /\ image = [o \in Objs |-> None]
    /\ triggers = [o \in Objs |-> [k \in Kinds |-> <<>>]]
    /\ listened = KeysOf(triggers)
    /\ pc = "idle"

TreeNext ==
    \/ \E c \in Containers, x \in Leaves \cup {NotAWidget} : Add(c, x)
    \/ \E c \in Containers, w \in Leaves : Remove(c, w)
    \/ \E c \in Containers, w \in Leaves, i \in -1..MaxChildren : InsertWidget(c, i, w)
    \/ \E c \in Containers : Clear(c)

\* The container interface called in any order.
SpecTree == InitTree /\ [][TreeNext]_vars

\* The same with direct calls of Widget.set_parent among them.
SetParentNext ==
    \/ TreeNext
    \/ \E w \in Leaves, p \in Containers \cup {None} : CallSetParent(w, p)

SpecSetParent == InitTree /\ [][SetParentNext]_vars

\* A window whose main layout A, at (1, 1), holds the Button w1, 2 x 1 at
\* A's top-left corner; two listeners on every event kind of every widget.
\* B and w2 are in no window.
InitEvents ==
    /\ InitCommon
    /\ InitPlain
    /\ parent = [o \in Objs |-> IF o = "w1" THEN Root ELSE None]
    /\ children = [c \in Containers |-> IF c = Root THEN <<"w1">> ELSE <<>>]
    /\ rect = [o \in Objs |->
                 IF o = Root THEN [x |-> 1, y |-> 1, w |-> 0, h |-> 0]
                 ELSE IF o = "w1" THEN [x |-> 0, y |-> 0, w |-> 2, h |-> 1]
                 ELSE ZeroRect]
    /\ image = [o \in Objs |-> IF o = "w1" THEN "image" ELSE None]
    /\ triggers = [o \in Objs |-> [k \in Kinds |-> <<"f", "g">>]]
    /\ listened = KeysOf(triggers)
    /\ pc = "frame"

\* The widgets whose flags the application toggles.
Toggled == {Root, "w1"}

EventsNext ==
    \/ MouseUpdate
    \/ \E i \in 1..MaxRawButton : PressButton(i)
    \/ \E i \in 1..MaxRawButton : ReleaseButton(i)
    \/ Move
    \/ ScrollWheelUp
    \/ ScrollWheelDown
    \/ Update
    \/ Render
    \/ \E w \in Toggled, v \in BOOLEAN : SetActive(w, v)
    \/ \E w \in Toggled \cap Leaves, v \in BOOLEAN : SetDisabled(w, v)

\* The frame loop over the window, with the application toggling flags
\* between frames.
SpecEvents == InitEvents /\ [][EventsNext]_vars

\* The frame loop with the raw events watched.  presses[i] says of mouse
\* button i:
\*   open   a raw press has arrived in this frame, whose sweep is still due;
\*   on     the widgets that the sweep of the frame of the most recent raw
\*          press reached with their event systems enabled and the pointer
\*          on them;
\*   down   the user holds the button: a press has arrived, its release has
\*          not;
\*   over   for the press the user holds, the widgets for which every sweep
\*          since the press was as for on;
\*   ended  for the presses whose release has arrived in this frame, the
\*          widgets that were in over then.
LiveHit == {w \in Leaves : Live(w) /\ CollidePoint(w, coords)}

WatchedMouseUpdate ==
    /\ DoMouseUpdate
    /\ presses' = [i \in ButtonNums |-> [presses[i] EXCEPT !.ended = {}]]

WatchedPressButton(i) ==
    /\ DoPressButton(i)
    /\ presses' = [presses EXCEPT ![i] =
                      [open |-> TRUE, on |-> {}, down |-> TRUE,
                       over |-> IF presses[i].down THEN presses[i].over ELSE Leaves,
                       ended |-> presses[i].ended]]

WatchedReleaseButton(i) ==
    /\ DoReleaseButton(i)
    /\ presses' = [presses EXCEPT ![i] =
                      [open |-> presses[i].open, on |-> presses[i].on, down |-> FALSE,
                       over |-> {},
                       ended |-> IF presses[i].down
                                 THEN presses[i].ended \cup presses[i].over
                                 ELSE presses[i].ended]]

WatchedUpdate ==
    /\ DoUpdate
    /\ presses' = [i \in ButtonNums |->
                      [open |-> FALSE,
                       on |-> IF presses[i].open THEN LiveHit ELSE presses[i].on,
                       down |-> presses[i].down,
                       over |-> presses[i].over \cap LiveHit,
                       ended |-> presses[i].ended]]

\* The user presses a button that is up and releases one that is down; the
\* two events may fall into one frame, in either order.
WatchedNext ==
    \/ WatchedMouseUpdate
    \/ \E i \in 1..MaxRawButton : ~presses[i].down /\ WatchedPressButton(i)
    \/ \E i \in 1..MaxRawButton : presses[i].down /\ WatchedReleaseButton(i)
    \/ WatchedUpdate
    \/ Render
    \/ \E w \in Toggled, v \in BOOLEAN : SetActive(w, v)
    \/ \E w \in Toggled \cap Leaves, v \in BOOLEAN : SetDisabled(w, v)

SpecWatched == InitEvents /\ [][WatchedNext]_vars

\* A window whose main layout A, at (1, 1), is a plain container for three
\* overlapping widgets, 2 x 1 each and one to the right of the other; one
\* listener on every event kind of every widget.
InitSweep ==
    /\ InitCommon
    /\ InitPlain
    /\ parent = [o \in Objs |-> None]
    /\ children = [c \in Containers |-> <<>>]
    /\ rect = [o \in Objs |->
                 IF o = Root THEN [x |-> 1, y |-> 1, w |-> 0, h |-> 0]
                 ELSE IF o = "w1" THEN [x |-> 0, y |-> 0, w |-> 2, h |-> 1]
                 ELSE IF o = "w2" THEN [x |-> 1, y |-> 0, w |-> 2, h |-> 1]
                 ELSE IF o = "w3" THEN [x |-> 2, y |-> 0, w |-> 2, h |-> 1]
                 ELSE ZeroRect]
    /\ image = [o \in Objs |-> IF o \in LayoutLeaves THEN "image" ELSE None]
    /\ triggers = [o \in Objs |-> [k \in Kinds |-> <<"f">>]]
    /\ listened = KeysOf(triggers)
    /\ pc = "frame"

\* The frames of the window; between two frames the application changes
\* the children of the main layout.
SweepNext ==
    \/ MouseUpdate
    \/ Update
    \/ Render
    \/ \E w \in LayoutLeaves : pc = "frame" /\ Add(Root, w)
    \/ \E w \in LayoutLeaves : pc = "frame" /\ Remove(Root, w)

SpecSweep == InitSweep /\ [][SweepNext]_vars

\* The same window with the Button w1 and the Widget w2, which overlaps
\* it, in the main layout.
InitCursor ==
    /\ InitCommon
    /\ InitPlain
    /\ parent = [o \in Objs |-> IF o \in Leaves THEN Root ELSE None]
    /\ children = [c \in Containers |-> IF c = Root THEN <<"w1", "w2">> ELSE <<>>]
    /\ rect = [o \in Objs |->
                 IF o = Root THEN [x |-> 1, y |-> 1, w |-> 0, h |-> 0]
                 ELSE IF o = "w1" THEN [x |-> 0, y |-> 0, w |-> 2, h |-> 1]
                 ELSE IF o = "w2" THEN [x |-> 1, y |-> 0, w |-> 2, h |-> 1]
                 ELSE ZeroRect]
    /\ image = [o \in Objs |-> IF o \in Leaves THEN "image" ELSE None]
    /\ triggers = [o \in Objs |-> [k \in Kinds |-> <<>>]]
    /\ listened = KeysOf(triggers)
    /\ pc = "frame"

\* The frames of that window, with the mouse buttons pressed and released.
CursorNext ==
    \/ MouseUpdate
    \/ \E i \in 1..MaxRawButton : PressButton(i)
    \/ \E i \in 1..MaxRawButton : ReleaseButton(i)
    \/ Update
    \/ Render

SpecCursor == InitCursor /\ [][CursorNext]_vars

----------------------------------------------------------------------------
(* Listeners that change the children of the main layout while it sweeps   *)
(* over them.  A reaction r is what the listener of the widget r.on does   *)
(* when it is called for the pre-update or the pre-render event: nothing,  *)
(* or a call of Root.remove, Root.add or Root.insert_widget(0, ...) with   *)
(* the widget r.target.  A sweep st is [h, s]: the heap and the sweep      *)
(* state of the event system.                                              *)

ReactionOps == {"none", "remove", "add", "insert_widget"}

Reaction(on, op, target) == [on |-> on, op |-> op, target |-> target]

\* The listener's call of the container
React(h, r) ==
    IF r.op = "remove" THEN ContainerRemove(h, Root, r.target)
    ELSE IF r.op = "add" THEN ContainerAdd(h, Root, r.target)
    ELSE IF r.op = "insert_widget" THEN ContainerInsertWidget(h, Root, 0, r.target)
    ELSE h

\* child.update() or child.render(...) with the listener of the child
\* running in it
Visit(st, child, r, render) ==
    [h |-> IF r.on = child /\ active[child] THEN React(st.h, r) ELSE st.h,
     s |-> IF render THEN WidgetRender(st.s, child) ELSE WidgetUpdate(st.s, child)]

\* for child in reversed(self.__children): child.update().  The reverse
\* iterator keeps a position (0-based), going down from the length the
\* list had at the start less one, and ends as soon as the position is
\* not one of the list as it is now.  An exception of the listener ends
\* the loop.
RECURSIVE ReversedLoop(_, _, _, _)
ReversedLoop(st, c, index, r) ==
    IF index < 0 \/ index >= Len(st.h.children[c]) \/ st.h.raised # None THEN st
    ELSE ReversedLoop(Visit(st, st.h.children[c][index + 1], r, FALSE), c, index - 1, r)

\* for child in self.__children: child.render(surface, offset).  The
\* iterator keeps a position going up from 0 and ends when the position
\* reaches the length the list has now.
RECURSIVE ForwardLoop(_, _, _, _)
ForwardLoop(st, c, index, r) ==
    IF index >= Len(st.h.children[c]) \/ st.h.raised # None THEN st
    ELSE ForwardLoop(Visit(st, st.h.children[c][index + 1], r, TRUE), c, index + 1, r)

\* Container._on_update of the main layout
ReactingOnUpdate(st, c, r) ==
    LET st1 == ReversedLoop(st, c, Len(st.h.children[c]) - 1, r)
    IN IF st1.h.raised # None THEN st1
       ELSE [st1 EXCEPT !.s = WidgetOnUpdate(@, c)]

\* Container._on_render of the main layout
ReactingOnRender(st, c, r) ==
    ForwardLoop([st EXCEPT !.s = WidgetOnRender(@, c)], c, 0, r)

\* What a sweep leaves behind; an exception of a listener leaves the frame
\* loop.
Swept(st, op, r, next) ==
    /\ parent' = st.h.parent
    /\ children' = st.h.children
    /\ recomputed' = st.h.recomputed
    /\ rect' = st.h.rect
    /\ emitted' = st.s.emitted
    /\ calls' = st.s.calls
    /\ rendered' = st.s.rendered
    /\ widget_hovered' = st.s.hovered
    /\ widget_pressed' = st.s.pressed
    /\ hovered_widgets' = st.s.hw
    /\ interacted_widgets' = st.s.iw
    /\ last' = [op |-> op, c |-> r.op, w |-> r.on, t |-> r.target, i |-> 0,
                raised |-> st.h.raised, n |-> 0]
    /\ pc' = IF st.h.raised # None THEN "crashed" ELSE next
    /\ UNCHANGED <<extVars, image, flagVars, triggers, coords, motion, wheel, buttons,
                   cursor, frames>>

\* manager.update with a listener that reacts
UpdateReacting(r) ==
    /\ pc = "events"
    /\ active[Root]
    /\ Swept(ReactingOnUpdate([h |-> Heap, s |-> Sweep], Root, r), "update", r, "render")

\* manager.render with a listener that reacts
RenderReacting(r) ==
    /\ pc = "render"
    /\ active[Root]
    /\ Swept(ReactingOnRender([h |-> Heap, s |-> Sweep], Root, r), "render", r, "frame")

\* A window whose main layout holds three widgets that the pointer never
\* hits; one listener on every event kind of every widget.
InitReacting ==
    /\ InitCommon
    /\ InitPlain
    /\ parent = [o \in Objs |-> IF o \in LayoutLeaves THEN Root ELSE None]
    /\ children = [c \in Containers |-> IF c = Root THEN <<"w1", "w2", "w3">> ELSE <<>>]
    /\ rect = [o \in Objs |-> ZeroRect]
    /\ image = [o \in Objs |-> IF o \in LayoutLeaves THEN "image" ELSE None]
    /\ triggers = [o \in Objs |-> [k \in Kinds |-> <<"f">>]]
    /\ listened = KeysOf(triggers)
    /\ pc = "frame"

Reactions ==
    {Reaction(on, op, target) : on \in LayoutLeaves, op \in ReactionOps,
                                target \in LayoutLeaves}

ReactingNext ==
    \/ MouseUpdate
    \/ \E r \in Reactions : UpdateReacting(r)
    \/ \E r \in Reactions : RenderReacting(r)
    \/ \E w \in LayoutLeaves : pc = "frame" /\ Add(Root, w)

SpecReacting == InitReacting /\ [][ReactingNext]_vars

----------------------------------------------------------------------------
(* Listeners.  A dictionary t is [lists, keys, raised]: the listener lists *)
(* of one widget by event kind, the kinds that are keys of __triggers, and *)
(* the exception the call raised.                                          *)

Listeners == {"f", "g"}

\* The event kinds the application registers listeners for.
ListenKinds == {"CLICK", "HOVER"}

\* add_listener calls the model follows.
MaxAdds == 3

Triggers(w) == [lists |-> triggers[w], keys |-> listened[w], raised |-> None]

\* add_listener that puts the listener in front: a mutant.
AddListenerInFront(t, kind, listener) ==
    [t EXCEPT !.lists[kind] = <<listener>> \o @, !.keys = @ \cup {kind}]

\* WidgetEventSystem.add_listener
AddListener(t, kind, listener) ==
    IF kind \in t.keys THEN [t EXCEPT !.lists[kind] = Append(@, listener)]
    ELSE [t EXCEPT !.lists[kind] = <<listener>>, !.keys = @ \cup {kind}]

\* WidgetEventSystem.remove_listener: list.remove drops the first occurrence
\* and raises ValueError when there is none.
RemoveListener(t, kind, listener) ==
    IF kind \in t.keys
    THEN IF InList(t.lists[kind], listener)
         THEN [t EXCEPT !.lists[kind] = ListRemove(@, listener)]
         ELSE [t EXCEPT !.raised = "ValueError"]
    ELSE t

\* The registrations without the earliest one of the listener, if any.
Unregister(rs, listener) ==
    IF \E i \in 1..Len(rs) : rs[i].listener = listener
    THEN LET i == CHOOSE i \in 1..Len(rs) :
                      /\ rs[i].listener = listener
                      /\ \A j \in 1..(i - 1) : rs[j].listener # listener
         IN SubSeq(rs, 1, i - 1) \o SubSeq(rs, i + 1, Len(rs))
    ELSE rs

listenIdle ==
    UNCHANGED <<treeVars, geomVars, flagVars, mouseVars, widget_hovered, widget_pressed,
                pc, rendered, cursor, frames, params, regVars, netVars, appVars, presses,
                timerVars>>

\* widget.add_listener(kind, listener), the n-th such call
CallAddListener(w, kind, listener) ==
    /\ last.n < MaxAdds
    /\ triggers' = [triggers EXCEPT ![w] = AddListener(Triggers(w), kind, listener).lists]
    /\ listened' = [listened EXCEPT ![w] = AddListener(Triggers(w), kind, listener).keys]
    /\ regs' = [regs EXCEPT ![w][kind] =
                               Append(@, [listener |-> listener, call |-> last.n + 1])]
    /\ last' = [op |-> "add_listener", w |-> w, kind |-> kind, listener |-> listener,
                raised |-> None, n |-> last.n + 1]
    /\ UNCHANGED <<emitted, calls>>
    /\ listenIdle

\* widget.remove_listener(kind, listener)
CallRemoveListener(w, kind, listener) ==
    /\ triggers' = [triggers EXCEPT ![w] = RemoveListener(Triggers(w), kind, listener).lists]
    /\ regs' = [regs EXCEPT ![w][kind] = Unregister(@, listener)]
    /\ last' = [op |-> "remove_listener", w |-> w, kind |-> kind, listener |-> listener,
                raised |-> RemoveListener(Triggers(w), kind, listener).raised,
                n |-> last.n]
    /\ UNCHANGED <<listened, emitted, calls>>
    /\ listenIdle

\* An event of the kind reaches the widget: _trigger_event runs the chain.
CallTriggerEvent(w, kind) ==
    /\ emitted' = TriggerEvent([Sweep EXCEPT !.emitted = <<>>, !.calls = <<>>],
                               w, PlainEvent(kind)).emitted
    /\ calls' = TriggerEvent([Sweep EXCEPT !.emitted = <<>>, !.calls = <<>>],
                             w, PlainEvent(kind)).calls
    /\ last' = [op |-> "trigger_event", w |-> w, kind |-> kind, listener |-> None,
                raised |-> None, n |-> last.n]
    /\ UNCHANGED <<triggers, listened, regs>>
    /\ listenIdle

\* Widgets in no container, with no listener yet.
InitListeners ==
    /\ InitCommon
    /\ parent = [o \in Objs |-> None]
    /\ children = [c \in Containers |-> <<>>]
    /\ rect = [o \in Objs |-> ZeroRect]
    /\ image = [o \in Objs |-> None]
    /\ triggers = [o \in Objs |-> [k \in Kinds |-> <<>>]]
    /\ listened = [o \in Objs |-> {}]
    /\ regs = NoRegs
    /\ params = [c \in Containers |-> PlainContainer]
    /\ InitRegistered
    /\ pc = "idle"

ListenersNext ==
    \/ \E w \in Leaves, k \in ListenKinds, l \in Listeners : CallAddListener(w, k, l)
    \/ \E w \in Leaves, k \in ListenKinds, l \in Listeners : CallRemoveListener(w, k, l)
    \/ \E w \in Leaves, k \in ListenKinds : CallTriggerEvent(w, k)

\* Listeners registered, removed and run in any order.
SpecListeners == InitListeners /\ [][ListenersNext]_vars

\* Listeners that disconnect a listener of the chain they are called in.  A
\* disconnection d is what the listener d.on does when it is called: it
\* calls remove_listener for the kind of the event and the listener
\* d.removes; with d.on = None no listener does so.  The dictionary t has
\* two more fields: called, the listeners invoked so far, and regs.
Disconnection(on, removes) == [on |-> on, removes |-> removes]

Disconnections ==
    {Disconnection(None, None)}
    \cup {Disconnection(on, l) : on \in Listeners, l \in Listeners}

\* The for loop of _trigger_event over the list __triggers[kind] itself: the
\* list iterator keeps a position and stops when the position reaches the
\* length the list has then.  An exception of a listener ends the loop.
RECURSIVE TriggerLoop(_, _, _, _)
TriggerLoop(t, kind, index, d) ==
    IF t.raised # None \/ index >= Len(t.lists[kind]) THEN t
    ELSE LET listener == t.lists[kind][index + 1]
             t1 == [t EXCEPT !.called = Append(@, listener)]
             t2 == IF listener # d.on THEN t1
                   ELSE [RemoveListener(t1, kind, d.removes) EXCEPT
                            !.regs = IF InList(t1.lists[kind], d.removes)
                                     THEN Unregister(@, d.removes) ELSE @]
         IN TriggerLoop(t2, kind, index + 1, d)

\* WidgetEventSystem._trigger_event with listeners that disconnect
DisconnectingTriggerEvent(t, kind, d) ==
    IF kind \in t.keys THEN TriggerLoop(t, kind, 0, d) ELSE t

\* An event of the kind reaches the widget, whose listeners disconnect as d
\* says.
CallTriggerDisconnecting(w, kind, d) ==
    LET t == DisconnectingTriggerEvent(
                 [lists |-> triggers[w], keys |-> listened[w], raised |-> None,
                  called |-> <<>>, regs |-> regs[w][kind]], kind, d)
    IN /\ triggers' = [triggers EXCEPT ![w] = t.lists]
       /\ regs' = [regs EXCEPT ![w][kind] = t.regs]
       /\ emitted' = <<[w |-> w, kind |-> kind, num |-> 0, hit |-> FALSE]>>
       /\ calls' = [k \in 1..Len(t.called) |->
                       [w |-> w, kind |-> kind, num |-> 0, listener |-> t.called[k]]]
       /\ last' = [op |-> "trigger_event", w |-> w, kind |-> kind, listener |-> None,
                   raised |-> t.raised, n |-> last.n, on |-> d.on,
                   removes |-> d.removes]
       /\ UNCHANGED listened
       /\ listenIdle

DisconnectingNext ==
    \/ \E w \in Leaves, k \in ListenKinds, l \in Listeners : CallAddListener(w, k, l)
    \/ \E w \in Leaves, k \in ListenKinds, d \in Disconnections :
          CallTriggerDisconnecting(w, k, d)

\* Listeners registered and run, some of them disconnecting while they run.
SpecDisconnecting == InitListeners /\ [][DisconnectingNext]_vars

----------------------------------------------------------------------------
(* Layouts.  A is a HorizontalLayout or a GridLayout, B a plain Container; *)
(* the widgets have surfaces whose sizes are multiples of Unit.            *)

\* The paddings the layouts are given.
Paddings == {0, Unit}

\* The length of the justified HorizontalLayout.
RowLength == 12 * Unit

\* The most columns a GridLayout is given.
MaxColumns == 2

HorizontalLayout(padding, justify_content, length) ==
    [kind |-> "HorizontalLayout", padding |-> padding,
     justify_content |-> justify_content, length |-> length, anchor |-> "center"]

GridLayout(length, padding) ==
    [kind |-> "GridLayout", padding |-> padding, justify_content |-> "PADDING",
     length |-> length, anchor |-> "center"]

\* FloatLayout.__init__
FloatLayout ==
    [kind |-> "FloatLayout", padding |-> 0, justify_content |-> "PADDING",
     length |-> 0, anchor |-> "topleft"]

\* The horizontal layouts the constructor accepts: without a length only in
\* fixed-padding mode, where __length is then 0.
HorizontalConfigs ==
    {HorizontalLayout(p, "PADDING", 0) : p \in Paddings}
    \cup {HorizontalLayout(p, j, RowLength) :
             p \in Paddings, j \in {"SPACE_BETWEEN", "SPACE_EVENLY"}}

GridConfigs == {GridLayout(n, p) : n \in 1..MaxColumns, p \in Paddings}

\* The sizes of the widgets' surfaces, in Units.
Sizes == [w1 |-> <<2, 1>>, w2 |-> <<1, 2>>, w3 |-> <<3, 2>>]
EqualHeightSizes == [w1 |-> <<2, 1>>, w2 |-> <<1, 1>>, w3 |-> <<3, 1>>]

SizedRects(sz) ==
    [o \in Objs |-> IF o \in LayoutLeaves
                    THEN FRect(<<0, 0>>, <<sz[o][1] * Unit, sz[o][2] * Unit>>)
                    ELSE ZeroRect]

\* The setter of padding, of a layout
CallSetPadding(c, value) ==
    /\ params[c].kind \in {"HorizontalLayout", "GridLayout"}
    /\ params' = SetPadding(Heap, c, value).params
    /\ rect' = SetPadding(Heap, c, value).rect
    /\ recomputed' = SetPadding(Heap, c, value).recomputed
    /\ last' = [op |-> "padding", c |-> c, w |-> None, i |-> value,
                raised |-> SetPadding(Heap, c, value).raised,
                n |-> last.n]
    /\ UNCHANGED <<parent, children, image, flagVars, esVars, mouseVars, frameVars,
                   regs, listened, regVars, netVars, appVars, presses,
                timerVars>>

\* GridLayout.set_length
CallSetLength(c, value) ==
    /\ params[c].kind = "GridLayout"
    /\ params' = SetLength(Heap, c, value).params
    /\ rect' = SetLength(Heap, c, value).rect
    /\ recomputed' = SetLength(Heap, c, value).recomputed
    /\ last' = [op |-> "set_length", c |-> c, w |-> None, i |-> value,
                raised |-> SetLength(Heap, c, value).raised,
                n |-> last.n]
    /\ UNCHANGED <<parent, children, image, flagVars, esVars, mouseVars, frameVars,
                   regs, listened, regVars, netVars, appVars, presses,
                timerVars>>

\* Widgets with surfaces, in no container; the application is between two
\* frames.
InitLayout(configs, sizes) ==
    /\ InitCommon
    /\ parent = [o \in Objs |-> None]
    /\ children = [c \in Containers |-> <<>>]
    /\ \E cfg \in configs : params = [c \in Containers |->
                                         IF c = "A" THEN cfg ELSE PlainContainer]
    /\ \E sz \in sizes : rect = SizedRects(sz)
    /\ image = [o \in Objs |-> IF o \in LayoutLeaves THEN "image" ELSE None]
    /\ triggers = [o \in Objs |-> [k \in Kinds |-> <<>>]]
    /\ listened = KeysOf(triggers)
    /\ regs = NoRegs
    /\ InitRegistered
    /\ pc = "frame"

\* The surfaces set_image is given, in Units, and how many calls of it the
\* model follows.
ImageSizes == {<<2, 2>>, <<4, 2>>}
MaxSetImage == 2

\* widget.set_image(value, anchor), with a surface of the size or with None
CallSetImage(w, size, anchor) ==
    /\ last.n < MaxSetImage
    /\ image' = [image EXCEPT ![w] = IF size = NoSurface THEN None ELSE "image"]
    /\ rect' = WidgetSetImage(Heap, w, size, anchor).rect
    /\ recomputed' = WidgetSetImage(Heap, w, size, anchor).recomputed
    /\ last' = [op |-> "set_image", c |-> anchor, w |-> w, i |-> 0, size |-> size,
                raised |-> WidgetSetImage(Heap, w, size, anchor).raised,
                n |-> last.n + 1]
    /\ UNCHANGED <<parent, children, flagVars, esVars, mouseVars, frameVars, extVars>>

\* The calls that change the membership of the layout A.
MembershipNext ==
    \/ \E w \in LayoutLeaves : Add("A", w)
    \/ \E w \in LayoutLeaves : Remove("A", w)
    \/ \E w \in LayoutLeaves, i \in 0..1 : InsertWidget("A", i, w)

\* A horizontal layout in any of its modes.
InitHorizontal == InitLayout(HorizontalConfigs, {Sizes})
SpecHorizontal == InitHorizontal /\ [][MembershipNext]_vars

\* A horizontal layout with fixed padding whose children are switched on
\* and off.
ActiveNext ==
    \/ MembershipNext
    \/ \E w \in LayoutLeaves, v \in BOOLEAN : SetActive(w, v)

FixedConfigs == {HorizontalLayout(p, "PADDING", 0) : p \in Paddings}

InitActive == InitLayout(FixedConfigs, {Sizes})
SpecActive == InitActive /\ [][ActiveNext]_vars

\* A grid or a horizontal layout with fixed padding whose parameters are
\* set anew.
SettersNext ==
    \/ MembershipNext
    \/ \E v \in Paddings : CallSetPadding("A", v)
    \/ \E n \in 1..MaxColumns : CallSetLength("A", n)

InitSetters == InitLayout(GridConfigs \cup FixedConfigs, {Sizes, EqualHeightSizes})
SpecSetters == InitSetters /\ [][SettersNext]_vars

\* Widgets put into the horizontal layout A or the plain container B, and
\* given new surfaces.
ImageNext ==
    \/ \E c \in Containers, w \in Leaves : Add(c, w)
    \/ \E w \in Leaves, size \in {NoSurface} \cup {<<sz[1] * Unit, sz[2] * Unit>> : sz \in ImageSizes},
          a \in Anchors : CallSetImage(w, size, a)

InitImage == InitLayout({HorizontalLayout(Unit, "PADDING", 0)}, {Sizes})
SpecImage == InitImage /\ [][ImageNext]_vars

\* The layouts of a nested pair: one of each class.
NestedConfigs ==
    {FloatLayout, GridLayout(MaxColumns, Unit), HorizontalLayout(Unit, "PADDING", 0)}

\* The layout B, empty, has been added to the layout A:
\* A.set_children_position has run.
InitNested ==
    /\ InitCommon
    /\ parent = [o \in Objs |-> IF o = "B" THEN "A" ELSE None]
    /\ children = [c \in Containers |-> IF c = "A" THEN <<"B">> ELSE <<>>]
    /\ params \in [Containers -> NestedConfigs]
    /\ rect = SetChildrenPosition(
                  [parent |-> parent, children |-> children, recomputed |-> <<>>,
                   raised |-> None, rect |-> SizedRects(Sizes), active |-> active,
                   params |-> params], "A").rect
    /\ image = [o \in Objs |-> IF o \in LayoutLeaves THEN "image" ELSE None]
    /\ triggers = [o \in Objs |-> [k \in Kinds |-> <<>>]]
    /\ listened = KeysOf(triggers)
    /\ regs = NoRegs
    /\ InitRegistered
    /\ pc = "frame"

\* The calls that change the membership of the inner layout B.
NestedNext ==
    \/ \E w \in LayoutLeaves : Add("B", w)
    \/ \E w \in LayoutLeaves : Remove("B", w)
    \/ \E w \in LayoutLeaves, i \in 0..1 : InsertWidget("B", i, w)

SpecNested == InitNested /\ [][NestedNext]_vars

\* The top-left corners the application gives to its widgets.
Corners == {<<0, 0>>, <<Unit, Unit>>}

\* B = FloatLayout(corner), empty, is the root or has been added to the plain
\* Container A; the widgets have been constructed at their corners.
InitFloat ==
    /\ InitCommon
    /\ \E nested \in BOOLEAN :
          /\ parent = [o \in Objs |-> IF nested /\ o = "B" THEN "A" ELSE None]
          /\ children = [c \in Containers |->
                            IF nested /\ c = "A" THEN <<"B">> ELSE <<>>]
    /\ params = [c \in Containers |-> IF c = "B" THEN FloatLayout ELSE PlainContainer]
    /\ \E at \in [Objs -> Corners] :
          rect = [o \in Objs |-> [SizedRects(Sizes)[o] EXCEPT !.x = at[o][1],
                                                              !.y = at[o][2]]]
    /\ image = [o \in Objs |-> IF o \in LayoutLeaves THEN "image" ELSE None]
    /\ triggers = [o \in Objs |-> [k \in Kinds |-> <<>>]]
    /\ listened = KeysOf(triggers)
    /\ regs = NoRegs
    /\ InitRegistered
    /\ pc = "frame"

\* The calls that make the FloatLayout B recompute.
FloatNext ==
    \/ \E w \in LayoutLeaves : Add("B", w)
    \/ \E w \in LayoutLeaves : Remove("B", w)
    \/ \E w \in LayoutLeaves, i \in 0..1 : InsertWidget("B", i, w)
    \/ \E w \in LayoutLeaves, v \in BOOLEAN : SetActive(w, v)

SpecFloat == InitFloat /\ [][FloatNext]_vars

----------------------------------------------------------------------------
(* The registry of widgets: gui_functions.__widgets, a dictionary from     *)
(* ids to widgets, here a function that is None where there is no key.     *)

\* gui_functions.generate_widget_id: len(__widgets)
GenerateWidgetId(ws) == Cardinality({i \in DOMAIN ws : ws[i] # None})

\* gui_functions.add_widget
AddWidget(ws, w, id) == [ws EXCEPT ![id] = w]

\* gui_functions.delete_widget: __widgets.pop(widget.id) takes the key out,
\* whatever widget it holds, and raises KeyError when there is no such key.
DeleteWidget(ws, id) ==
    IF id \in DOMAIN ws /\ ws[id] # None
    THEN [widgets |-> [ws EXCEPT ![id] = None], raised |-> None]
    ELSE [widgets |-> ws, raised |-> "KeyError"]

\* gui_functions.get_widget_by_id
GetWidgetById(ws, id) == IF id \in DOMAIN ws THEN ws[id] ELSE None

regIdle ==
    UNCHANGED <<treeVars, geomVars, flagVars, esVars, mouseVars, frameVars,
                regs, listened, params, netVars, appVars, presses,
                timerVars>>

\* Widget.__init__: the id is taken, then the widget is registered.
Construct(o) ==
    /\ ~InList(born, o)
    /\ wid' = [wid EXCEPT ![o] = GenerateWidgetId(widgets)]
    /\ widgets' = AddWidget(widgets, o, GenerateWidgetId(widgets))
    /\ born' = Append(born, o)
    /\ last' = [op |-> "construct", c |-> None, w |-> o, i |-> 0, raised |-> None,
                n |-> last.n]
    /\ UNCHANGED dead
    /\ regIdle

\* Widget.__del__, when the widget is finalised or the application calls
\* it: delete_widget, whose KeyError goes no further.
Destroy(o) ==
    /\ InList(born, o)
    /\ o \notin dead
    /\ widgets' = DeleteWidget(widgets, wid[o]).widgets
    /\ dead' = dead \cup {o}
    /\ last' = [op |-> "destroy", c |-> None, w |-> o, i |-> 0,
                raised |-> DeleteWidget(widgets, wid[o]).raised, n |-> last.n]
    /\ UNCHANGED <<wid, born>>
    /\ regIdle

\* No widget has been constructed yet.
InitRegistry ==
    /\ InitCommon
    /\ parent = [o \in Objs |-> None]
    /\ children = [c \in Containers |-> <<>>]
    /\ rect = [o \in Objs |-> ZeroRect]
    /\ image = [o \in Objs |-> None]
    /\ triggers = [o \in Objs |-> [k \in Kinds |-> <<>>]]
    /\ listened = [o \in Objs |-> {}]
    /\ regs = NoRegs
    /\ params = [c \in Containers |-> PlainContainer]
    /\ widgets = [i \in Ids |-> None]
    /\ wid = [o \in Objs |-> NoId]
    /\ born = <<>>
    /\ dead = {}
    /\ pc = "idle"

RegistryNext ==
    \/ \E o \in Objs : Construct(o)
    \/ \E o \in Objs : Destroy(o)

\* Widgets constructed and destroyed in any order.
SpecRegistry == InitRegistry /\ [][RegistryNext]_vars

LiveWidgets == {o \in Objs : InList(born, o) /\ o \notin dead}

----------------------------------------------------------------------------
(* The network module.  The main thread calls start_server, start_client,  *)
(* get_data and close; the threads they start take their steps in between. *)
(* A thread is [target, conn]; a loop is none (not started), loop          *)
(* (running), done (ended, its connection closed) or crashed (ended by an  *)
(* exception outside its try, its connection left open).                   *)

\* The keys of the messages the peers send.
Keys == {"m1", "m2"}

\* Messages the model lets arrive, and calls of the main thread it follows.
MaxTraffic == 2
MaxNetCalls == 3

Thread(target, conn) == [target |-> target, conn |-> conn]

\* {"key": key, "data": data}
Message(key, d) == [key |-> key, data |-> d]

Net == [mode |-> mode, threads |-> threads, loops |-> loops, raised |-> None]

\* start_server without the check of the mode: a mutant.
StartServerUnchecked(net) ==
    [net EXCEPT !.threads = Append(@, Thread("__start_server", None)),
                !.loops["server"] = IF sock = "open" THEN "loop" ELSE "crashed",
                !.mode = "server"]

\* network.start_server: the thread binds and listens, which a closed
\* socket refuses with an exception outside the thread's try.
StartServer(net) ==
    IF net.mode # None THEN [net EXCEPT !.raised = "Exception"]
    ELSE [net EXCEPT !.threads = Append(@, Thread("__start_server", None)),
                     !.loops["server"] = IF sock = "open" THEN "loop" ELSE "crashed",
                     !.mode = "server"]

\* network.start_client: connect raises when the socket is closed or the
\* host does not answer; then no thread is started and no mode is set.
StartClient(net, answered) ==
    IF net.mode # None THEN [net EXCEPT !.raised = "Exception"]
    ELSE IF sock # "open" \/ ~answered THEN [net EXCEPT !.raised = "OSError"]
    ELSE [net EXCEPT !.threads = Append(@, Thread("__start_client", None)),
                     !.loops["client"] = "loop",
                     !.mode = "client"]

\* The for loop of sendall over the connections but one: s is [sent,
\* failed]; sendall on a connection the host has closed raises, which ends
\* the loop.
RECURSIVE SendAll(_, _, _, _)
SendAll(s, conns, but, msg) ==
    IF conns = <<>> \/ s.failed THEN s
    ELSE IF Head(conns) = but THEN SendAll(s, Tail(conns), but, msg)
    ELSE IF loops[Head(conns)] = "done" THEN [s EXCEPT !.failed = TRUE]
    ELSE SendAll([s EXCEPT !.sent[Head(conns)] = Append(@, msg)], Tail(conns), but, msg)

netIdle ==
    UNCHANGED <<treeVars, geomVars, flagVars, esVars, mouseVars, frameVars,
                regs, listened, params, regVars, appVars, presses,
                timerVars>>

\* One more call of the main thread
MainCall(op, raised) ==
    /\ drain.pc = "idle"
    /\ last.n < MaxNetCalls
    /\ last' = [op |-> op, c |-> None, w |-> None, i |-> 0, raised |-> raised,
                n |-> last.n + 1]

\* network.start_server()
CallStartServer ==
    /\ MainCall("start_server", StartServer(Net).raised)
    /\ mode' = StartServer(Net).mode
    /\ threads' = StartServer(Net).threads
    /\ loops' = StartServer(Net).loops
    /\ UNCHANGED <<connections, data, sent, traffic, sock, drain>>
    /\ netIdle

\* network.start_client(ip), the host answering or not
CallStartClient(answered) ==
    /\ MainCall("start_client", StartClient(Net, answered).raised)
    /\ mode' = StartClient(Net, answered).mode
    /\ threads' = StartClient(Net, answered).threads
    /\ loops' = StartClient(Net, answered).loops
    /\ UNCHANGED <<connections, data, sent, traffic, sock, drain>>
    /\ netIdle

\* network.close()
CallClose ==
    /\ MainCall("close", None)
    /\ sock' = "closed"
    /\ UNCHANGED <<mode, threads, connections, data, sent, traffic, loops, drain>>
    /\ netIdle

\* A message was appended to the queue: the record of it.
Heard == [drain EXCEPT !.quiet = FALSE]

\* get_data whose clear leaves the queue as it is: a mutant.
GetDataKeeps ==
    /\ drain.pc = "copied"
    /\ data' = data
    /\ drain' = [drain EXCEPT !.pc = "idle", !.quiet = TRUE]
    /\ UNCHANGED <<mode, threads, connections, sent, traffic, loops, sock, last>>
    /\ netIdle

\* network.get_data, first statement: the copy
GetDataCopy ==
    /\ MainCall("get_data", None)
    /\ drain' = [pc |-> "copied", copy |-> data, quiet |-> drain.quiet,
                 again |-> last.op = "get_data" /\ drain.quiet]
    /\ UNCHANGED <<mode, threads, connections, data, sent, traffic, loops, sock>>
    /\ netIdle

\* network.get_data, second statement: the clear, and the return
GetDataClear ==
    /\ drain.pc = "copied"
    /\ data' = <<>>
    /\ drain' = [drain EXCEPT !.pc = "idle", !.quiet = TRUE]
    /\ UNCHANGED <<mode, threads, connections, sent, traffic, loops, sock, last>>
    /\ netIdle

\* __start_server, one turn of its loop: a peer is accepted and a thread
\* started for it.
ServerAccept(conn) ==
    /\ loops["server"] = "loop"
    /\ sock = "open"
    /\ ~InList(connections, conn)
    /\ connections' = Append(connections, conn)
    /\ threads' = Append(threads, Thread("__handle_client", conn))
    /\ loops' = [loops EXCEPT ![conn] = "new"]
    /\ UNCHANGED <<mode, data, sent, traffic, sock, drain, last>>
    /\ netIdle

\* __start_server and __start_client after close(): accept and recv raise,
\* the loop ends.
LoopEnds(t) ==
    /\ t \in {"server", "client"}
    /\ loops[t] = "loop"
    /\ sock = "closed"
    /\ loops' = [loops EXCEPT ![t] = "done"]
    /\ UNCHANGED <<mode, threads, connections, data, sent, traffic, sock, drain, last>>
    /\ netIdle

\* __handle_client before its loop: send_message("new-client", ...) to every
\* connection, then the same message into the inbound queue.  A sendall that
\* raises ends the thread there.
HandlerGreets(conn) ==
    /\ loops[conn] = "new"
    /\ LET msg == Message("new-client", Len(connections) + 1)
           s == SendAll([sent |-> sent, failed |-> FALSE], connections, None, msg)
       IN /\ sent' = s.sent
          /\ data' = IF s.failed THEN data ELSE Append(data, msg)
          /\ drain' = IF s.failed THEN drain ELSE Heard
          /\ loops' = [loops EXCEPT ![conn] = IF s.failed THEN "crashed" ELSE "loop"]
    /\ UNCHANGED <<mode, threads, connections, traffic, sock, last>>
    /\ netIdle

\* __handle_client, one turn of its loop with a message from the peer: it
\* goes into the inbound queue and to every other connection.  A sendall
\* that raises ends the loop and closes the connection.
HandlerReceives(conn, key) ==
    /\ loops[conn] = "loop"
    /\ traffic < MaxTraffic
    /\ traffic' = traffic + 1
    /\ LET msg == Message(key, 0)
           s == SendAll([sent |-> sent, failed |-> FALSE], connections, conn, msg)
       IN /\ sent' = s.sent
          /\ data' = Append(data, msg)
          /\ drain' = Heard
          /\ loops' = [loops EXCEPT ![conn] = IF s.failed THEN "done" ELSE "loop"]
    /\ UNCHANGED <<mode, threads, connections, sock, last>>
    /\ netIdle

\* __handle_client, one turn of its loop when the peer is gone or sends
\* what does not unpickle to a true value: the loop ends, the connection is
\* closed.
HandlerEnds(conn) ==
    /\ loops[conn] = "loop"
    /\ loops' = [loops EXCEPT ![conn] = "done"]
    /\ UNCHANGED <<mode, threads, connections, data, sent, traffic, sock, drain, last>>
    /\ netIdle

\* __start_client, one turn of its loop with a message from the host
ClientReceives(key) ==
    /\ loops["client"] = "loop"
    /\ sock = "open"
    /\ traffic < MaxTraffic
    /\ traffic' = traffic + 1
    /\ data' = Append(data, Message(key, 0))
    /\ drain' = Heard
    /\ UNCHANGED <<mode, threads, connections, sent, loops, sock, last>>
    /\ netIdle

\* The module as imported, the GUI idle.
InitNetwork ==
    /\ InitCommon
    /\ InitPlain
    /\ parent = [o \in Objs |-> None]
    /\ children = [c \in Containers |-> <<>>]
    /\ rect = [o \in Objs |-> ZeroRect]
    /\ image = [o \in Objs |-> None]
    /\ triggers = [o \in Objs |-> [k \in Kinds |-> <<>>]]
    /\ listened = KeysOf(triggers)
    /\ pc = "idle"

NetworkNext ==
    \/ CallStartServer
    \/ \E answered \in BOOLEAN : CallStartClient(answered)
    \/ CallClose
    \/ GetDataCopy
    \/ GetDataClear
    \/ \E conn \in Peers : ServerAccept(conn)
    \/ \E t \in {"server", "client"} : LoopEnds(t)
    \/ \E conn \in Peers : HandlerGreets(conn)
    \/ \E conn \in Peers, key \in Keys : HandlerReceives(conn, key)
    \/ \E conn \in Peers : HandlerEnds(conn)
    \/ \E key \in Keys : ClientReceives(key)

\* The calls of the main thread and the steps of the network threads in any
\* order.
SpecNetwork == InitNetwork /\ [][NetworkNext]_vars

\* A host and three peers that connect, send and leave; each peer's messages
\* have the peer's name as their key.
RelayNext ==
    \/ CallStartServer
    \/ \E conn \in Conns : ServerAccept(conn)
    \/ \E conn \in Conns : HandlerGreets(conn)
    \/ \E conn \in Conns : HandlerReceives(conn, conn)
    \/ \E conn \in Conns : HandlerEnds(conn)

SpecRelay == InitNetwork /\ [][RelayNext]_vars

----------------------------------------------------------------------------
(* The window manager.  A window class and its instance are named by the   *)
(* class's name attribute.  A manager m is [windows, current_window,       *)
(* wcalls, raised]; the methods of a window return without raising.        *)

WindowNames == {"menu", "room", "game"}
EventTypes == {"CHANGE_WINDOW", "KEYDOWN"}

Manager == [windows |-> windows, current_window |-> current_window,
            wcalls |-> <<>>, raised |-> None]

\* A method of a window is called, or current_window is assigned.
Did(m, what, window) == [m EXCEPT !.wcalls = Append(@, <<what, window>>)]

\* __change_window that loads the named window before it clears the
\* outgoing one: a mutant.
ChangeWindowLoadsFirst(m, name) ==
    IF name \notin m.windows THEN [m EXCEPT !.raised = "WindowNotFoundError"]
    ELSE IF m.current_window = None THEN [m EXCEPT !.raised = "NoWindowError"]
    ELSE Did(Did([Did(m, "load", name) EXCEPT !.current_window = name],
                 "current_window", name), "clear", m.current_window)

\* manager.__change_window
ChangeWindow(m, name) ==
    IF name \notin m.windows THEN [m EXCEPT !.raised = "WindowNotFoundError"]
    ELSE IF m.current_window = None THEN [m EXCEPT !.raised = "NoWindowError"]
    ELSE Did([Did(Did(m, "clear", m.current_window), "current_window", name)
                 EXCEPT !.current_window = name], "load", name)

\* manager.create_window; builds: the constructor of the window returns
\* (its _build gives a Container) rather than raises.
CreateWindow(m, name, builds) ==
    IF name \in m.windows THEN [m EXCEPT !.raised = "WindowAlreadyExistsError"]
    ELSE IF ~builds THEN [m EXCEPT !.raised = "ValueError"]
    ELSE IF m.current_window = None
         THEN Did([Did([m EXCEPT !.windows = @ \cup {name}], "current_window", name)
                      EXCEPT !.current_window = name], "load", name)
         ELSE [m EXCEPT !.windows = @ \cup {name}]

\* manager.process_event
ProcessEvent(m, type, name) ==
    IF m.current_window = None THEN [m EXCEPT !.raised = "NoWindowError"]
    ELSE IF type = "CHANGE_WINDOW" THEN ChangeWindow(m, name)
    ELSE Did(m, "process_event", m.current_window)

\* manager.update and manager.render
Forward(m, method) ==
    IF m.current_window = None THEN [m EXCEPT !.raised = "NoWindowError"]
    ELSE Did(m, method, m.current_window)

managerIdle ==
    UNCHANGED <<treeVars, geomVars, flagVars, esVars, mouseVars, frameVars,
                regs, listened, params, regVars, netVars, presses, timerVars>>

\* What a call of the manager leaves behind
ManagerCall(m, op, type, name) ==
    /\ windows' = m.windows
    /\ current_window' = m.current_window
    /\ wcalls' = m.wcalls
    /\ last' = [op |-> op, c |-> type, w |-> name, i |-> 0, raised |-> m.raised, n |-> 0]

CallCreateWindow(name, builds) ==
    /\ ManagerCall(CreateWindow(Manager, name, builds), "create_window", None, name)
    /\ managerIdle

\* manager.process_event(event); an event that is not CHANGE_WINDOW has no
\* name.
CallProcessEvent(type, name) ==
    /\ type # "CHANGE_WINDOW" => name = None
    /\ ManagerCall(ProcessEvent(Manager, type, name), "process_event", type, name)
    /\ managerIdle

CallUpdate ==
    /\ ManagerCall(Forward(Manager, "update"), "update", None, None)
    /\ managerIdle

CallRender ==
    /\ ManagerCall(Forward(Manager, "render"), "render", None, None)
    /\ managerIdle

ManagerNext ==
    \/ \E name \in WindowNames, builds \in BOOLEAN : CallCreateWindow(name, builds)
    \/ \E type \in EventTypes, name \in WindowNames \cup {None} : CallProcessEvent(type, name)
    \/ CallUpdate
    \/ CallRender

\* The calls of the manager in any order, from the module as imported.
SpecManager == InitNetwork /\ [][ManagerNext]_vars

----------------------------------------------------------------------------
(* A timer that is started, updated, paused, resumed and stopped.          *)

\* The longest interval and the most loops a timer is given, and the most
\* update() calls that are followed after a start().
MaxInterval == 3
MaxLoops == 3
MaxUpdates == 10

timerIdle ==
    UNCHANGED <<treeVars, last, geomVars, flagVars, esVars, mouseVars, frameVars,
                regs, listened, params, regVars, netVars, appVars, presses>>

\* timer.start()
CallTimerStart ==
    /\ timer' = TimerStart(timer)
    /\ ticking' = [NoTicks EXCEPT !.started = TRUE]
    /\ timerIdle

\* timer.stop()
CallTimerStop ==
    /\ timer' = TimerStop(timer)
    /\ ticking' = [ticking EXCEPT !.steady = FALSE]
    /\ timerIdle

\* timer.pause()
CallTimerPause ==
    /\ timer' = TimerPause(timer)
    /\ ticking' = [ticking EXCEPT !.steady = FALSE]
    /\ timerIdle

\* timer.resume()
CallTimerResume ==
    /\ timer' = TimerResume(timer)
    /\ UNCHANGED ticking
    /\ timerIdle

\* timer.update()
CallTimerUpdate ==
    /\ ticking.n < MaxUpdates
    /\ timer' = TimerUpdate(timer).t
    /\ ticking' = [ticking EXCEPT
                      !.n = @ + 1,
                      !.ends = IF TimerUpdate(timer).called = "on_end_func"
                               THEN Append(@, ticking.n + 1) ELSE @,
                      !.late = @ \/ (/\ TimerUpdate(timer).called # None
                                     /\ Len(ticking.ends) >= timer.loops)]
    /\ timerIdle

\* Timer(k, L) with k >= 2 and L >= 1 has been constructed.
InitTicking ==
    /\ InitCore
    /\ InitPlain
    /\ parent = [o \in Objs |-> None]
    /\ children = [c \in Containers |-> <<>>]
    /\ rect = [o \in Objs |-> ZeroRect]
    /\ image = [o \in Objs |-> None]
    /\ triggers = [o \in Objs |-> [k \in Kinds |-> <<>>]]
    /\ listened = KeysOf(triggers)
    /\ pc = "idle"
    /\ \E k \in 2..MaxInterval, L \in 1..MaxLoops : timer = Timer(k, L)
    /\ ticking = NoTicks

TimerNext ==
    \/ CallTimerStart
    \/ CallTimerStop
    \/ CallTimerPause
    \/ CallTimerResume
    \/ CallTimerUpdate

SpecTimer == InitTicking /\ [][TimerNext]_vars

----------------------------------------------------------------------------
(* Properties of the widget tree *)

\* w is a child of c: c holds it and it points back to c
IsChildOf(w, c) == InList(children[c], w) /\ parent[w] = c

\* C1: after any calls of add, remove, insert_widget and clear, a widget is
\* in a container's child list exactly if that container is its parent.
C1_ListMatchesParent ==
    \A w \in Leaves, c \in Containers : InList(children[c], w) <=> parent[w] = c

\* C2: adding a widget that is a child of another container raises
\* WidgetHasParentError and changes neither parents nor child lists; removing a
\* child from its container clears its parent; and right after that remove,
\* add and set_parent with any container succeed.
C2_AddNeedsDetach ==
    [][/\ \A w \in Leaves, a \in Containers :
            (IsChildOf(w, a) /\ last'.op = "add" /\ last'.w = w /\ last'.c # a)
            => (/\ last'.raised = "WidgetHasParentError"
                /\ parent' = parent
                /\ children' = children)
       /\ \A w \in Leaves, a \in Containers :
            (IsChildOf(w, a) /\ last'.op = "remove" /\ last'.w = w /\ last'.c = a)
            => (last'.raised = None /\ parent'[w] = None)
       /\ (/\ last.op = "remove" /\ last.raised = None
           /\ last'.op \in {"add", "set_parent"} /\ last'.w = last.w
           /\ last'.c \in Containers)
          => (/\ last'.raised = None
              /\ parent'[last'.w] = last'.c
              /\ last'.op = "add" => children'[last'.c] = Append(children[last'.c], last'.w))
      ]_vars

\* C2 witness: an add has just been refused for a widget that is a child of
\* another container.
C2_Witness ==
    /\ last.op = "add"
    /\ last.raised = "WidgetHasParentError"
    /\ \E a \in Containers : a # last.c /\ IsChildOf(last.w, a)

\* C3 as stated: set_parent(p) raises WidgetHasParentError, leaving the parent
\* as it was, exactly if the current parent and p are both set and differ;
\* otherwise the parent becomes p.
C3_RaisesIffDifferent ==
    [][last'.op = "set_parent"
       => LET w == last'.w
              p == last'.c
          IN IF parent[w] # None /\ p # None /\ parent[w] # p
             THEN last'.raised = "WidgetHasParentError" /\ parent' = parent
             ELSE last'.raised = None /\ parent' = [parent EXCEPT ![w] = p]
      ]_vars

\* C3 amended: set_parent(p) raises WidgetHasParentError, leaving the parent
\* as it was, exactly if the current parent and p are both set (also when p
\* is the current parent); otherwise the parent becomes p.
C3_RaisesIffBothSet ==
    [][last'.op = "set_parent"
       => LET w == last'.w
              p == last'.c
          IN IF parent[w] # None /\ p # None
             THEN last'.raised = "WidgetHasParentError" /\ parent' = parent
             ELSE last'.raised = None /\ parent' = [parent EXCEPT ![w] = p]
      ]_vars

\* C3 witness: set_parent has just been refused with the widget's own parent.
C3_Witness ==
    /\ last.op = "set_parent"
    /\ last.raised = "WidgetHasParentError"
    /\ parent[last.w] = last.c

\* C4: after clear() the child list is empty and every former child has no
\* parent.
C4_ClearDetachesAll ==
    [][last'.op = "clear"
       => /\ children'[last'.c] = <<>>
          /\ \A w \in Leaves : InList(children[last'.c], w) => parent'[w] = None
      ]_vars

\* C5: B.insert_widget(i, W) for a child W of another container A, with i up
\* to the number of B's other children, raises nothing, takes W out of A's
\* list, leaves W once in B's list, at position i, with parent B, and
\* recomputes A's layout and then B's.
C5_InsertTransfers ==
    [][\A w \in Leaves, a \in Containers :
          (/\ IsChildOf(w, a)
           /\ last'.op = "insert_widget" /\ last'.w = w /\ last'.c # a
           /\ 0 <= last'.i
           /\ last'.i <= Len(children[last'.c]) - Count(children[last'.c], w))
          => (/\ last'.raised = None
              /\ ~InList(children'[a], w)
              /\ Count(children'[last'.c], w) = 1
              /\ children'[last'.c][last'.i + 1] = w
              /\ parent'[w] = last'.c
              /\ recomputed' = <<a, last'.c>>)
      ]_vars

------------------------------------------------------------------------\* C34: a call c.remove(w) with a widget w that is not in c's child list
\* raises, and the parents and the child lists are after it what they were
\* before it.
C34_FailedRemoveChangesNothing ==
    [][(last'.op = "remove" /\ ~InList(children[last'.c], last'.w)) =>
          /\ last'.raised # None
          /\ parent' = parent
          /\ children' = children
      ]_vars

----
(* Properties of the event system *)

\* The widgets whose images a render sweep drew, in order.
Drawn(log) == [k \in 1..Len(log) |-> log[k].w]

\* how many events of a kind the frame has dispatched for w
EmitCount(w, kind) ==
    Cardinality({k \in 1..Len(emitted) : emitted[k].w = w /\ emitted[k].kind = kind})

\* whether the frame has dispatched an event of a kind for w and button i
EmittedFor(w, kind, i) ==
    \E k \in 1..Len(emitted) :
        emitted[k].w = w /\ emitted[k].kind = kind /\ emitted[k].num = i

InputKinds == {"HOVER_IN", "HOVER", "HOVER_OUT", "SCROLL_WHEEL_UP", "SCROLL_WHEEL_DOWN",
               "PRESS", "HOLD", "DRAG", "RELEASE", "CLICK"}

\* C6: for a widget whose event system ran in the previous sweep and runs in
\* this one, the sweep dispatches one hover-in if the pointer hits now and did
\* not before, one hover if it hits now and did before, one hover-out if it
\* hit before and does not now, and never anything else of the three.
C6_HoverSequence ==
    pc = "render" =>
        \A w \in Leaves :
            (Live(w) /\ frames[w].live_before) =>
                LET before == frames[w].hit_before
                    now == CollidePoint(w, coords)
                IN /\ EmitCount(w, "HOVER_IN") = (IF ~before /\ now THEN 1 ELSE 0)
                   /\ EmitCount(w, "HOVER") = (IF before /\ now THEN 1 ELSE 0)
                   /\ EmitCount(w, "HOVER_OUT") = (IF before /\ ~now THEN 1 ELSE 0)

\* C6 witness: the sweep has just dispatched the hover-out of a widget the
\* pointer has left.
C6_Witness ==
    /\ pc = "render"
    /\ Live("w1") /\ frames["w1"].live_before
    /\ frames["w1"].hit_before /\ ~CollidePoint("w1", coords)
    /\ EmitCount("w1", "HOVER_OUT") = 1

\* C7: a Button's click for mouse button i is dispatched in a frame exactly if
\* a release for i is dispatched in it and the pointer hits the Button; every
\* click has a release with the same button index and hit attribute.
C7_ClickIffReleaseHit ==
    \A w \in Leaves : Class(w) = "Button" =>
        /\ \A i \in ButtonNums :
              EmittedFor(w, "CLICK", i)
                  <=> (EmittedFor(w, "RELEASE", i) /\ CollidePoint(w, coords))
        /\ \A k \in 1..Len(emitted) :
              (emitted[k].w = w /\ emitted[k].kind = "CLICK")
              => \E j \in 1..Len(emitted) :
                     emitted[j] = [emitted[k] EXCEPT !.kind = "RELEASE"]
        /\ EmitCount(w, "CLICK") <= EmitCount(w, "RELEASE")

\* C7 witness: a click has been dispatched for the Button.
C7_Witness == EmittedFor("w1", "CLICK", 1) /\ CollidePoint("w1", coords)

\* C8: in a frame with a click, every release listener of the Button is called
\* before any of its click listeners for the same button.
C8_ReleaseBeforeClick ==
    \A j, k \in 1..Len(calls) :
        (/\ calls[j].kind = "CLICK" /\ calls[k].kind = "RELEASE"
         /\ calls[j].w = calls[k].w /\ calls[j].num = calls[k].num)
        => k < j

\* C9: a sweep dispatches no input event for a widget whose event system is
\* disabled, leaves its hovered and pressed flags alone and puts it on neither
\* of the mouse module's lists.
C9_DisabledIsSilent ==
    [][(pc = "events" /\ pc' = "render")
       => \A w \in Objs : disabled[w] =>
             /\ \A k \in 1..Len(emitted') :
                   emitted'[k].w = w => emitted'[k].kind \notin InputKinds
             /\ widget_hovered'[w] = widget_hovered[w]
             /\ widget_pressed'[w] = widget_pressed[w]
             /\ ~InList(hovered_widgets', w)
             /\ ~InList(interacted_widgets', w)
      ]_vars

\* C9 witness: a sweep has just passed a disabled Button that the pointer hits
\* while mouse button 1 is in state PRESS.
C9_Witness ==
    /\ pc = "render"
    /\ disabled["w1"] /\ Reached("w1")
    /\ CollidePoint("w1", coords) /\ buttons[1] = "PRESS"
    /\ EmitCount("w1", "ON_PREV_UPDATE") = 1

\* the widgets below c in the tree, c included
RECURSIVE Below(_, _)
Below(c, n) ==
    IF n = 0 \/ ~IsContainer(c) THEN {c}
    ELSE {c} \cup UNION {Below(children[c][k], n - 1) : k \in 1..Len(children[c])}

Subtree(c) == Below(c, Cardinality(Objs))

\* C10: update() and render() of an inactive widget dispatch no event and call
\* no listener for it or for anything below it, draw none of them, and leave
\* their hovered and pressed flags alone.
C10_InactiveIsNoOp ==
    [][/\ (pc = "events" /\ pc' = "render")
          => \A w \in Objs : ~active[w] => \A d \in Subtree(w) :
                /\ \A k \in 1..Len(emitted') : emitted'[k].w # d
                /\ \A k \in 1..Len(calls') : calls'[k].w # d
                /\ widget_hovered'[d] = widget_hovered[d]
                /\ widget_pressed'[d] = widget_pressed[d]
       /\ (pc = "render" /\ pc' = "frame")
          => \A w \in Objs : ~active[w] => \A d \in Subtree(w) :
                /\ \A k \in (Len(emitted) + 1)..Len(emitted') : emitted'[k].w # d
                /\ \A k \in (Len(calls) + 1)..Len(calls') : calls'[k].w # d
                /\ ~InList(Drawn(rendered'), d)
                /\ widget_hovered'[d] = widget_hovered[d]
                /\ widget_pressed'[d] = widget_pressed[d]
      ]_vars

\* C10 witness: a frame has been swept and rendered with the main layout
\* inactive while its active child was under the pointer.
C10_Witness ==
    /\ pc = "frame"
    /\ ~active[Root] /\ active["w1"] /\ ~disabled["w1"]
    /\ parent["w1"] = Root
    /\ CollidePoint("w1", coords)
    /\ emitted = <<>> /\ rendered = <<>>
    /\ frames["w1"].hit_before /\ ~frames["w1"].live_before

\* How many events of a kind a log has for the widget and the mouse button.
ButtonCount(log, w, kind, i) ==
    Cardinality({k \in 1..Len(log) :
                    log[k].w = w /\ log[k].kind = kind /\ log[k].num = i})

\* C33: the step that starts a frame (mouse.update, after which the raw
\* events of the frame and then the sweep come) takes each raw button from
\* PRESS to HOLD and from RELEASE to NO_STATE, resets the wheel and clears
\* the motion flag; the sweep, the rendering and the calls between frames
\* leave the three alone.  So the events of a frame begin with no button in
\* PRESS or RELEASE, and a sweep sees PRESS or RELEASE only for a button
\* that was pressed or released among the raw events of its own frame.
C33_FrameStartResets ==
    [][/\ (pc = "frame" /\ pc' = "events") =>
             /\ \A i \in ButtonNums :
                   /\ buttons[i] = "PRESS" => buttons'[i] = "HOLD"
                   /\ buttons[i] = "RELEASE" => buttons'[i] = "NO_STATE"
                   /\ buttons[i] \in {"HOLD", "NO_STATE"} => buttons'[i] = buttons[i]
             /\ wheel' = "NO_STATE"
             /\ motion' = FALSE
       /\ pc' \in {"render", "frame"} => UNCHANGED <<buttons, wheel, motion>>
       /\ \A i \in ButtonNums :
             (pc' = "render" /\ buttons[i] \in {"PRESS", "RELEASE"}) =>
                 emitted = <<>> /\ pc = "events"
      ]_vars

\* A frame has begun after one whose sweep saw the press of button 1 on w1:
\* the raw button is in HOLD.
C33_Witness ==
    /\ pc = "events"
    /\ buttons[1] = "HOLD"
    /\ widget_pressed["w1"][1]
    /\ wheel = "NO_STATE"
    /\ ~motion
    /\ emitted = <<>>

\* C27: in the update of a frame, for every mouse button and every active
\* widget whose event system is enabled: pressed flag set and raw state
\* HOLD, one drag (the pointer moved) or one hold (it did not), wherever
\* the pointer is; flag set and raw state RELEASE, one release and the flag
\* cleared; flag clear, the pointer on the widget and raw state PRESS, one
\* press and the flag set; otherwise no button event and the flag as it was.
C27_ButtonStateMachine ==
    [][(pc = "events" /\ pc' = "render") =>
          \A w \in Leaves, i \in ButtonNums : Live(w) =>
             LET n(kind) == ButtonCount(emitted', w, kind, i)
                 flag == widget_pressed[w][i]
                 after == widget_pressed'[w][i]
             IN IF flag /\ buttons[i] = "HOLD"
                THEN /\ n("DRAG") = (IF motion THEN 1 ELSE 0)
                     /\ n("HOLD") = (IF motion THEN 0 ELSE 1)
                     /\ n("PRESS") = 0 /\ n("RELEASE") = 0
                     /\ after
                ELSE IF flag /\ buttons[i] = "RELEASE"
                THEN /\ n("RELEASE") = 1
                     /\ n("DRAG") = 0 /\ n("HOLD") = 0 /\ n("PRESS") = 0
                     /\ ~after
                ELSE IF ~flag /\ CollidePoint(w, coords) /\ buttons[i] = "PRESS"
                THEN /\ n("PRESS") = 1
                     /\ n("DRAG") = 0 /\ n("HOLD") = 0 /\ n("RELEASE") = 0
                     /\ after
                ELSE /\ n("PRESS") = 0 /\ n("DRAG") = 0 /\ n("HOLD") = 0
                     /\ n("RELEASE") = 0
                     /\ after = flag
      ]_vars

\* The widget, pressed earlier, has been dragged with the pointer off it.
C27_Witness ==
    /\ pc = "render"
    /\ Live("w1")
    /\ widget_pressed["w1"][1]
    /\ buttons[1] = "HOLD"
    /\ motion
    /\ ~CollidePoint("w1", coords)
    /\ ButtonCount(emitted, "w1", "DRAG", 1) = 1

\* C37: when a frame has dispatched a click of a Button for mouse button i,
\* the frame in which the most recent raw press of i arrived was one whose
\* sweep reached the Button, active and with its event system enabled, with
\* the pointer on it.
C37_ClickNeedsPressOnButton ==
    \A w \in Leaves, i \in ButtonNums :
        (Class(w) = "Button" /\ EmittedFor(w, "CLICK", i)) => w \in presses[i].on

\* C38: when the release of a press of mouse button i has arrived in a frame
\* and every sweep from the frame of the press to this one has reached the
\* Button, active and enabled, with the pointer on it, the sweep of this
\* frame has dispatched one click of the Button for i.
C38_OneClickPerPress ==
    \A w \in Leaves, i \in ButtonNums :
        (/\ Class(w) = "Button"
         /\ pc = "render"
         /\ w \in presses[i].ended
         /\ w \in LiveHit)
        => ButtonCount(emitted, w, "CLICK", i) = 1

\* How many events of the kind for w and the mouse button i the step
\* dispatches: the log of the frame grows, or mouse.update empties it.
Dispatched(w, kind, i) ==
    IF Len(emitted') >= Len(emitted)
    THEN ButtonCount(emitted', w, kind, i) - ButtonCount(emitted, w, kind, i)
    ELSE 0

\* C39: for every widget and mouse button, the pressed flag is clear at
\* first, and a step dispatches at most one of press, hold, drag and
\* release: a press only with the flag clear, setting it; a hold or a drag
\* only with the flag set, leaving it set; a release only with the flag set,
\* clearing it; and a step that dispatches none of them leaves the flag as
\* it is.  So the events of a run are (press (hold | drag)* release)* and the
\* flag is set exactly from a press to its release.
C39_PressReleaseCycles ==
    /\ \A w \in Objs, i \in ButtonNums : ~widget_pressed[w][i]
    /\ [][\A w \in Objs, i \in ButtonNums :
             LET press == Dispatched(w, "PRESS", i)
                 held == Dispatched(w, "HOLD", i) + Dispatched(w, "DRAG", i)
                 release == Dispatched(w, "RELEASE", i)
                 flag == widget_pressed[w][i]
                 after == widget_pressed'[w][i]
             IN IF emitted' = emitted \/ emitted' = <<>> THEN after = flag
                ELSE /\ press + held + release \in {0, 1}
                     /\ press = 1 => ~flag /\ after
                     /\ held = 1 => flag /\ after
                     /\ release = 1 => flag /\ ~after
                     /\ press + held + release = 0 => after = flag
         ]_vars

\* The Button has been pressed, held with the pointer off it while its event
\* system was switched off and on again, and released.
C39_Witness ==
    /\ pc = "render"
    /\ ButtonCount(emitted, "w1", "RELEASE", 1) = 1
    /\ ~widget_pressed["w1"][1]
    /\ ~CollidePoint("w1", coords)
    /\ ~frames["w1"].live_before

\* In the log of listener calls, the calls for the widget w and the kind
\* are as many as w has listeners for it, and come before (first = TRUE)
\* or after (first = FALSE) every other call for w that is not of a kind
\* in apart.
Wraps(log, w, kind, first, apart) ==
    /\ Cardinality({k \in 1..Len(log) : log[k].w = w /\ log[k].kind = kind})
          = Len(triggers[w][kind])
    /\ \A j, k \in 1..Len(log) :
          (/\ log[j].w = w /\ log[j].kind = kind
           /\ log[k].w = w /\ log[k].kind \notin apart \cup {kind})
          => IF first THEN j < k ELSE k < j

UpdateKinds == {"ON_PREV_UPDATE", "ON_POST_UPDATE"}
RenderKinds == {"ON_PREV_RENDER", "ON_POST_RENDER"}

\* C28: in the update of an active widget that the sweep reaches, its
\* pre-update listeners run before every listener of a hover, scroll or
\* button event of the widget and its post-update listeners after them all,
\* also when its event system is disabled; in its render the pre-render
\* event is the last before its content is drawn and the post-render event
\* the first after.
C28_LifecycleWraps ==
    [][/\ (pc = "events" /\ pc' = "render") =>
             \A w \in Objs : Reached(w) =>
                /\ Wraps(calls', w, "ON_PREV_UPDATE", TRUE, RenderKinds)
                /\ Wraps(calls', w, "ON_POST_UPDATE", FALSE, RenderKinds)
       /\ (pc = "render" /\ pc' = "frame") =>
             \A w \in Objs : Reached(w) =>
                /\ Wraps(calls', w, "ON_PREV_RENDER", TRUE, InputKinds \cup UpdateKinds)
                /\ Wraps(calls', w, "ON_POST_RENDER", FALSE, InputKinds \cup UpdateKinds)
                /\ \A k \in 1..Len(rendered') : rendered'[k].w = w =>
                      LET at == rendered'[k].at
                      IN /\ at >= 1 /\ at < Len(emitted')
                         /\ emitted'[at].w = w /\ emitted'[at].kind = "ON_PREV_RENDER"
                         /\ emitted'[at + 1].w = w
                         /\ emitted'[at + 1].kind = "ON_POST_RENDER"
                /\ (image[w] # None) <=> InList(Drawn(rendered'), w)
      ]_vars

\* The update has reached a widget that the pointer hits and whose event
\* system is disabled: its listeners of the pre-update and of the
\* post-update event have run, and none else.
C28_Witness ==
    /\ pc = "render"
    /\ Reached("w1") /\ disabled["w1"]
    /\ CollidePoint("w1", coords)
    /\ SelectSeq(calls, LAMBDA e : e.w = "w1")
          = << [w |-> "w1", kind |-> "ON_PREV_UPDATE", num |-> 0, listener |-> "f"],
               [w |-> "w1", kind |-> "ON_PREV_UPDATE", num |-> 0, listener |-> "g"],
               [w |-> "w1", kind |-> "ON_POST_UPDATE", num |-> 0, listener |-> "f"],
               [w |-> "w1", kind |-> "ON_POST_UPDATE", num |-> 0, listener |-> "g"] >>

\* The cursor of a widget: what its get_cursor returns, the default
\* cursor for a widget that has none.
CursorOf(w) == IF GetCursor(w) # None THEN GetCursor(w) ELSE "default"

\* C29: mouse.update chooses the cursor of the first widget the sweep
\* before it marked interacted, if there is one, else the cursor of the
\* first widget it marked hovered, else the default cursor, and leaves
\* both lists empty.
C29_CursorChoice ==
    [][(pc = "frame" /\ pc' = "events") =>
          /\ cursor' = IF interacted_widgets # <<>> THEN CursorOf(interacted_widgets[1])
                       ELSE IF hovered_widgets # <<>> THEN CursorOf(hovered_widgets[1])
                       ELSE "default"
          /\ hovered_widgets' = <<>>
          /\ interacted_widgets' = <<>>
      ]_vars

\* The widgets for which the events of a kind were emitted, in order.
EmittedTo(log, kind) ==
    LET es == SelectSeq(log, LAMBDA e : e.kind = kind)
    IN [k \in 1..Len(es) |-> es[k].w]

\* In a log every event of the kind for a widget other than c comes before
\* (after = FALSE) or after (after = TRUE) the event of the other kind for c.
Around(log, c, kind, other, after) ==
    \A j, k \in 1..Len(log) :
        (log[j].kind = kind /\ log[j].w # c /\ log[k].kind = other /\ log[k].w = c) =>
            IF after THEN k < j ELSE j < k

\* C25: one update of the active main layout updates its active children
\* last to first, all of them before the layout's own event system; one
\* render draws the layout's own content first and then the children first
\* to last.
C25_SweepOrder ==
    [][/\ (pc = "events" /\ pc' = "render" /\ active[Root]) =>
             /\ EmittedTo(emitted', "ON_PREV_UPDATE")
                   = Reversed(ActiveChildren(Heap, Root)) \o <<Root>>
             /\ Around(emitted', Root, "ON_POST_UPDATE", "ON_PREV_UPDATE", FALSE)
       /\ (pc = "render" /\ pc' = "frame" /\ active[Root]) =>
             /\ EmittedTo(emitted', "ON_PREV_RENDER")
                   = <<Root>> \o ActiveChildren(Heap, Root)
             /\ Around(emitted', Root, "ON_PREV_RENDER", "ON_POST_RENDER", TRUE)
             /\ Drawn(rendered')
                   = SelectSeq(ActiveChildren(Heap, Root), LAMBDA w : image[w] # None)
      ]_vars

\* Three active children have been updated, and are about to be rendered.
C25_Witness ==
    /\ pc = "render"
    /\ Len(children[Root]) = 3
    /\ \A w \in LayoutLeaves : active[w]
    /\ EmittedTo(emitted, "ON_PREV_UPDATE")
          = <<children[Root][3], children[Root][2], children[Root][1], Root>>

\* The sweep of this step over the children of the main layout, and the
\* widgets it visited, in order.
SweepStep(op) == last'.op = op /\ pc # "frame" /\ pc' # pc

Visits(op) ==
    EmittedTo(emitted', IF op = "update" THEN "ON_PREV_UPDATE" ELSE "ON_PREV_RENDER")

\* w is a child of the main layout from the start of the sweep of this
\* step to its end.
Stays(w) ==
    /\ InList(children[Root], w)
    /\ InList(children'[Root], w)
    /\ ~(last'.c = "insert_widget" /\ last'.t = w)

\* C26: when a listener adds or removes children of the main layout
\* during its update or render sweep, no widget that was a child at the
\* start is visited twice, and every child that stays one throughout a
\* sweep that no exception ends is visited once.
C26_NoTornSweep ==
    [][\A op \in {"update", "render"} : SweepStep(op) =>
          \A w \in LayoutLeaves :
              /\ InList(children[Root], w) => Count(Visits(op), w) <= 1
              /\ (Stays(w) /\ last'.raised = None) => Count(Visits(op), w) = 1
      ]_vars

----------------------------------------------------------------------------
(* Properties of the listener chains *)

\* C11: the listeners of a widget for an event kind run in the order of the
\* add_listener calls that registered them, and remove_listener takes one
\* registration of the listener out of the chain and leaves the others in
\* the order they had.
C11_ListenersInOrder ==
    [][/\ last'.op = "trigger_event" =>
            LET rs == regs'[last'.w][last'.kind]
            IN /\ \A i, j \in 1..Len(rs) : i < j => rs[i].call < rs[j].call
               /\ Len(calls') = Len(rs)
               /\ \A i \in 1..Len(rs) :
                      /\ calls'[i].listener = rs[i].listener
                      /\ calls'[i].w = last'.w
                      /\ calls'[i].kind = last'.kind
       /\ (last'.op = "remove_listener"
             /\ InList(triggers[last'.w][last'.kind], last'.listener)) =>
            LET old == triggers[last'.w][last'.kind]
                new == triggers'[last'.w][last'.kind]
            IN /\ last'.raised = None
               /\ \E i \in 1..Len(old) :
                      /\ old[i] = last'.listener
                      /\ new = SubSeq(old, 1, i - 1) \o SubSeq(old, i + 1, Len(old))
               /\ \A w \in Objs, k \in Kinds :
                      <<w, k>> # <<last'.w, last'.kind>> => triggers'[w][k] = triggers[w][k]
      ]_vars

\* g, registered second, and f, registered third, have run in that order
\* after the first registration was removed.
C11_Witness ==
    /\ last.op = "trigger_event"
    /\ Len(calls) = 2
    /\ calls[1].listener = "g" /\ calls[2].listener = "f"
    /\ regs[last.w][last.kind][1].call = 2
    /\ regs[last.w][last.kind][2].call = 3

------------------------------------------------------------------------\* The listeners a log of invocations names, in order.
Invoked(log) == [k \in 1..Len(log) |-> log[k].listener]

\* C36: an emission that no listener has ended with an exception has invoked
\* each listener as many times as it was registered for the kind when the
\* emission started (once, if it was registered once), whichever listener
\* has disconnected itself or another one on the way.
C36_AllListenersInvoked ==
    [][(last'.op = "trigger_event" /\ last'.raised = None) =>
          \A l \in Listeners :
              Count(Invoked(calls'), l) = Count(triggers[last'.w][last'.kind], l)
      ]_vars

----
(* Properties of the layouts *)

MembershipOps == {"add", "remove", "insert_widget"}

\* The rectangles c.set_children_position() computes
Placed(c) == SetChildrenPosition(Heap, c).rect

\* The last call was one on the layout A that changed its membership.
Recomposed == last.op \in MembershipOps /\ last.c = "A" /\ last.raised = None

\* The row of a horizontal layout with padding pad: the first of kids at
\* x = 0, each next one behind the one before it, and the layout as wide as
\* the row and as high as its highest child.
FixedRow(kids, pad) ==
    /\ kids # <<>> => rect[kids[1]].x = 0
    /\ \A i \in 1..(Len(kids) - 1) :
           rect[kids[i + 1]].x = rect[kids[i]].x + rect[kids[i]].w + pad
    /\ rect["A"].w = SumWidth(Heap, kids) + pad * (Len(kids) - 1)
    /\ rect["A"].h = MaxHeight(Heap, kids)

\* C12: after a call of add, remove or insert_widget on a HorizontalLayout
\* in fixed-padding mode, all of whose children are active, the children are
\* in a row from x = 0 with the padding between them, and the layout's width
\* is the sum of their widths plus padding * (n - 1), its height the highest
\* child's.
C12_FixedPaddingRow ==
    (/\ Recomposed
     /\ params["A"].kind = "HorizontalLayout"
     /\ params["A"].justify_content = "PADDING"
     /\ \A k \in 1..Len(children["A"]) : active[children["A"][k]])
    => FixedRow(children["A"], params["A"].padding)

\* Three active children are in the row, two Units of padding put in by the
\* last call.
C12_Witness ==
    /\ Recomposed
    /\ last.op = "insert_widget"
    /\ params["A"].padding = Unit
    /\ Len(children["A"]) = 3
    /\ \A k \in 1..3 : active[children["A"][k]]
    /\ rect["A"].w = SumWidth(Heap, children["A"]) + 2 * Unit

\* C13: a HorizontalLayout in space-between mode of length L, whatever
\* padding it was constructed with, puts its first active child at x = 0;
\* with n > 1 active children of total width S the gaps are (L - S)/(n - 1)
\* and the last child ends at L; with one child the child is at the left
\* edge; with none the recomputation does not raise.
C13_SpaceBetween ==
    (/\ Recomposed
     /\ params["A"].kind = "HorizontalLayout"
     /\ params["A"].justify_content = "SPACE_BETWEEN")
    => LET kids == ActiveChildren(Heap, "A")
           n == Len(kids)
           L == params["A"].length
           S == SumWidth(Heap, kids)
       IN /\ n >= 1 => rect[kids[1]].x = 0
          /\ n > 1 =>
               /\ \A i \in 1..(n - 1) :
                      (n - 1) * (rect[kids[i + 1]].x - rect[kids[i]].x - rect[kids[i]].w)
                         = L - S
               /\ rect[kids[n]].x + rect[kids[n]].w = L

\* C14: a GridLayout with N columns and padding P and M >= 1 active
\* children, all of height h, is after its recomputation
\* ceil(M/N) * h + (ceil(M/N) - 1) * P high.
C14_GridHeight ==
    LET kids == ActiveChildren(Heap, "A")
        M == Len(kids)
        N == params["A"].length
        rows == (M + N - 1) \div N
    IN (/\ params["A"].kind = "GridLayout"
        /\ last.op \in MembershipOps \cup {"padding", "set_length"}
        /\ last.raised = None
        /\ M >= 1
        /\ \A i \in 1..M : rect[kids[i]].h = rect[kids[1]].h)
       => rect["A"].h = rows * rect[kids[1]].h + (rows - 1) * params["A"].padding

\* C35: a call that makes a GridLayout recompute with no active child
\* (remove of its last child, the padding setter or set_length on the empty
\* grid) returns without raising and leaves the layout a rectangle without
\* extent.
C35_EmptyGridRecomputes ==
    (/\ params["A"].kind = "GridLayout"
     /\ last.c = "A"
     /\ last.op \in {"remove", "padding", "set_length"}
     /\ last.raised # "ValueError"
     /\ ActiveChildren(Heap, "A") = <<>>)
    => /\ last.raised = None
       /\ rect["A"].w = 0
       /\ rect["A"].h = 0

\* C15: right after padding is assigned to a HorizontalLayout in
\* fixed-padding mode or to a GridLayout, or set_length is called on a
\* GridLayout, the layout's set_children_position has run: the rectangles
\* are the ones it computes from the new parameters.
C15_SettersRecompute ==
    last.op \in {"padding", "set_length"} =>
        /\ InList(recomputed, last.c)
        /\ rect = Placed(last.c)

\* C16: in the states add, remove, insert_widget and the setting of the
\* children's active flags lead to, the active children of a HorizontalLayout
\* in fixed-padding mode and the layout's size are the row of the children
\* that are active now.
C16_InactiveLeftOut ==
    children["A"] # <<>> => FixedRow(ActiveChildren(Heap, "A"), params["A"].padding)

\* C30: after add, remove or insert_widget on the layout B, which is a
\* child of the layout A, the recomputation has run on B and then on A, and
\* A's rectangle and the positions of its children are what A's
\* recomputation gives for the sizes they have now.
C30_AncestorsRecomputed ==
    (last.op \in MembershipOps /\ last.c = "B" /\ last.raised = None) =>
        /\ Len(recomputed) >= 2
        /\ recomputed[Len(recomputed) - 1] = "B"
        /\ recomputed[Len(recomputed)] = "A"
        /\ rect = Placed("A")

\* C31: when a call has run the recomputation of the FloatLayout B, root
\* or nested, and B has an active child, B's top-left corner and the relative
\* top-left corners of its children are the ones from before the call, and
\* the right bottom corner of B's absolute rectangle is the greatest right and
\* the greatest bottom of its active children's absolute rectangles.
C31_FloatReachesChildren ==
    /\ [][(InList(recomputed', "B") /\ ActiveChildren(Heap, "B")' # <<>>) =>
             /\ rect'["B"].x = rect["B"].x /\ rect'["B"].y = rect["B"].y
             /\ \A w \in LayoutLeaves :
                   InList(children'["B"], w) =>
                       rect'[w].x = rect[w].x /\ rect'[w].y = rect[w].y]_vars
    /\ [](InList(recomputed, "B") /\ ActiveChildren(Heap, "B") # <<>> =>
             LET kids == ActiveChildren(Heap, "B")
                 b == AbsoluteRect("B")
             IN /\ \A i \in 1..Len(kids) :
                      /\ AbsoluteRect(kids[i]).x + AbsoluteRect(kids[i]).w <= b.x + b.w
                      /\ AbsoluteRect(kids[i]).y + AbsoluteRect(kids[i]).h <= b.y + b.h
                /\ \E i \in 1..Len(kids) :
                      AbsoluteRect(kids[i]).x + AbsoluteRect(kids[i]).w = b.x + b.w
                /\ \E i \in 1..Len(kids) :
                      AbsoluteRect(kids[i]).y + AbsoluteRect(kids[i]).h = b.y + b.h)

\* A step that is a call of set_image
IsSetImage == last'.op = "set_image" /\ last'.n = last.n + 1

----------------------------------------------------------------------------
(* Properties of the registry *)

\* C18: whatever widgets have been constructed and destroyed, no two live
\* widgets have the same id, a widget constructed later has a greater id,
\* and the registry holds every live widget under its id.
C18_IdsUnique ==
    /\ \A a, b \in LiveWidgets : a # b => wid[a] # wid[b]
    /\ \A i, j \in 1..Len(born) : i < j => wid[born[i]] < wid[born[j]]
    /\ \A o \in LiveWidgets : GetWidgetById(widgets, wid[o]) = o

\* C19: get_widget_by_id with the id of a destroyed widget returns None,
\* however many widgets were constructed after the destruction.
C19_DestroyedIdNotFound ==
    \A o \in dead : GetWidgetById(widgets, wid[o]) = None

----------------------------------------------------------------------------
(* Properties of the network module *)

\* The handler of the connection p has taken a message of the peer in this
\* step.
Received(p) ==
    /\ loops[p] = "loop"
    /\ traffic' = traffic + 1
    /\ data' = Append(data, Message(p, 0))

\* The host has not closed the connection q it accepted.
Connected(q) == InList(connections, q) /\ loops[q] # "done"

\* C22: whatever the threads do between the two statements of get_data,
\* what a call of get_data takes out of the queue is what it returns, so
\* that each message appended is returned once, in the order of the queue.
C22_DrainedOnce ==
    [][(drain.pc = "copied" /\ drain'.pc = "idle") => data = drain.copy]_vars

\* C23: a call of get_data that follows another with no message appended
\* between the two returns the empty list.
C23_SecondIsEmpty == drain.again => drain.copy = <<>>

\* get_data has returned for the second time in a row, with nothing
\* appended since the first return, after messages had arrived.
C23_Witness ==
    /\ drain.again
    /\ drain.pc = "idle"
    /\ traffic > 0
    /\ drain.copy = <<>>

\* A CHANGE_WINDOW event for the window name is processed in this step,
\* the manager having a current window.
Changes(name) ==
    /\ last'.op = "process_event"
    /\ last'.c = "CHANGE_WINDOW"
    /\ last'.w = name
    /\ current_window # None

\* C24: once a window has been created the current window is one of the
\* registered ones; a CHANGE_WINDOW event that names a registered window
\* clears the outgoing window, makes the named one current and loads it, in
\* this order; one that names no registered window raises
\* WindowNotFoundError, calls neither and leaves the current window.
C24_OneCurrentWindow ==
    /\ [](windows # {} => current_window \in windows)
    /\ [][\A name \in WindowNames \cup {None} : Changes(name) =>
             IF name \in windows
             THEN /\ wcalls' = << <<"clear", current_window>>,
                                  <<"current_window", name>>, <<"load", name>> >>
                  /\ current_window' = name
                  /\ last'.raised = None
             ELSE /\ wcalls' = <<>>
                  /\ current_window' = current_window
                  /\ last'.raised = "WindowNotFoundError"
         ]_vars

\* The manager has switched from one window to another.
C24_Witness ==
    /\ last.op = "process_event"
    /\ last.raised = None
    /\ wcalls = << <<"clear", "menu">>, <<"current_window", "game">>, <<"load", "game">> >>
    /\ current_window = "game"

\* C21: a message the host receives on the connection of a peer is sent
\* on the connection of every other peer that is still connected, and not
\* on the peer's own connection.
C21_RelayedToOthers ==
    [][\A p \in Conns : Received(p) =>
          /\ sent'[p] = sent[p]
          /\ \A q \in Conns \ {p} :
                Connected(q) => sent'[q] = Append(sent[q], Message(p, 0))
      ]_vars

\* C32: the step in which the receive loop of a peer ends without a message
\* (the peer has left, or its data did not unpickle) leaves the loops of the
\* other peers as they are, and a loop that takes a message from its peer,
\* whichever peers have failed before, is still running after it.
C32_OthersKeepRunning ==
    [][\A p \in Conns :
          /\ (loops[p] = "loop" /\ loops'[p] = "done" /\ data' = data) =>
                \A q \in Conns \ {p} : loops'[q] = loops[q]
          /\ Received(p) => loops'[p] = "loop"
      ]_vars

\* C40: for a timer with interval k and L loops that was started and then
\* only updated, the j-th call of on_end_func came in update number j * k
\* after the start; there are at most L such calls, all L of them once L * k
\* updates are done, and then the timer is ended and no later update has
\* called a callback.
C40_LoopsLastInterval ==
    (ticking.started /\ ticking.steady) =>
        /\ \A j \in 1..Len(ticking.ends) : ticking.ends[j] = j * timer.interval
        /\ Len(ticking.ends) <= timer.loops
        /\ ticking.n >= timer.loops * timer.interval =>
              Len(ticking.ends) = timer.loops /\ timer.ended
        /\ ~ticking.late

\* A start_server or start_client call has started its thread.
RoleStarted ==
    \E k \in 1..Len(threads) : threads[k].target \in {"__start_server", "__start_client"}

\* C20: once start_server or start_client has succeeded, every later call
\* of either raises, starts no thread and leaves the mode as it is.
C20_OneRole ==
    [][(/\ RoleStarted
        /\ last'.n = last.n + 1
        /\ last'.op \in {"start_server", "start_client"})
       => /\ last'.raised = "Exception"
          /\ threads' = threads
          /\ mode' = mode
          /\ mode # None
      ]_vars

\* start_server was called in client mode, with peers' messages queued,
\* and raised.
C20_Witness ==
    /\ last.op = "start_server"
    /\ last.raised = "Exception"
    /\ mode = "client"
    /\ Len(threads) = 1
    /\ data # <<>>

====
